---- MODULE Spec2Model ----
(***************************************************************************)
(* A model of killkli/sprite_service: the geometric engine of              *)
(* worker/sprite_processor.py (region detection, region merging, canvas    *)
(* normalisation, grid segmentation), the Celery tasks of worker/tasks.py  *)
(* and the job endpoints of api/main.py.                                   *)
(*                                                                         *)
(* Python lists are 0-based, TLA+ sequences 1-based: position i of the     *)
(* source is position i+1 here.                                            *)
(***************************************************************************)
EXTENDS Integers, Sequences, FiniteSets, TLC

VARIABLES
    pc,                     \* the step the modelled call has reached
    alpha_channel,          \* detect_bboxes_opencv: the alpha raster
    alpha_threshold,        \* detect_bboxes_opencv parameter
    min_area_ratio,         \* detect_bboxes_opencv parameter, <<num, den>>
    max_area_ratio,         \* detect_bboxes_opencv parameter, <<num, den>>
    stats,                  \* detect_bboxes_opencv local: one entry per label
    bboxes,                 \* split_sprites: the detected regions
    distance_threshold,     \* merge_nearby_small_boxes parameter
    size_ratio_threshold,   \* merge_nearby_small_boxes parameter, in tenths
    median_area,            \* merge_nearby_small_boxes local
    large_boxes,            \* merge_nearby_small_boxes local (positions in bboxes)
    small_boxes,            \* merge_nearby_small_boxes local (positions in bboxes)
    merged_boxes,           \* split_sprites: the merged regions
    image_size,             \* _resize_and_center: <<orig_width, orig_height>>
    size_config,            \* resize_sprites: <<max_size, canvas_w, canvas_h>>
    new_size,               \* _resize_and_center: <<new_width, new_height>>
    offset,                 \* _resize_and_center: <<x_offset, y_offset>>
    canvas_size,            \* _resize_and_center: the size of the returned canvas
    img_size,               \* split_by_grid: <<w, h>> of the image
    auto_detect,            \* split_by_grid parameter
    rows,                   \* split_by_grid parameter, 0 for None
    cols,                   \* split_by_grid parameter, 0 for None
    padding,                \* split_by_grid parameter
    cv_outcome,             \* what OpenCV does: "ok", "unreadable" (cv2.imread gives
                            \* None) or "error" (detection raises on a readable image)
    hough_lines,            \* detect_grid_lines: <<h_lines, v_lines>> of HoughLinesP
    color_diffs,            \* detect_grid_by_color_diff: <<col_diffs, row_diffs>>
    h_lines,                \* split_by_grid: the horizontal line list
    v_lines,                \* split_by_grid: the vertical line list
    sprite_crops,           \* split_by_grid: the crop rectangle of each sprite saved
    sprite_paths,           \* split_by_grid: the number in the file name of each sprite saved
    job,                    \* tasks.py: per job, the task run for it, what the result
                            \* backend holds of it and the files it owns
    processor,              \* tasks.py global: 0 for None, else the number of the instance
    generator,              \* tasks.py global: 0 for None, else the number of the instance
    response,               \* main.py: the body of the latest HTTP response
    line_positions,         \* _cluster_lines parameter positions, a list
    line_threshold,         \* _cluster_lines parameter distance_threshold
    clusters,               \* _cluster_lines: the list returned
    sprite_files,           \* resize_sprites: the sprites found, in file name order
    size_configs,           \* resize_sprites parameter: 0 for None, else the presets
    pillow_rejects,         \* whether Image.resize raises on an empty size
    save_faults,            \* the <<size_name, file>> whose save raises OSError
    output_dirs,            \* resize_sprites: the size directories made
    written,                \* resize_sprites: the <<size_name, file>> written
    batch_error,            \* resize_sprites: the exception that left the call, or none
    request,                \* main.py: the submission received
    sent_tasks,             \* main.py: the tasks given to celery_client.send_task
    upload_dir,             \* main.py: the files written to UPLOAD_DIR
    produced_sets           \* the size directories in the output of the job

mergeVars == <<bboxes, distance_threshold, size_ratio_threshold,
               median_area, large_boxes, small_boxes, merged_boxes>>

detectVars == <<alpha_channel, alpha_threshold, min_area_ratio, max_area_ratio, stats>>

resizeVars == <<image_size, size_config, new_size, offset, canvas_size>>

gridVars == <<img_size, auto_detect, rows, cols, padding, cv_outcome, hough_lines,
              color_diffs, h_lines, v_lines, sprite_crops, sprite_paths>>

taskVars == <<job, processor, generator, response>>

clusterVars == <<line_positions, line_threshold, clusters>>

batchVars == <<sprite_files, size_configs, pillow_rejects, save_faults, output_dirs, written, batch_error>>

apiVars == <<request, sent_tasks, upload_dir, produced_sets>>

vars == <<pc, detectVars, mergeVars, resizeVars, gridVars, taskVars, clusterVars, batchVars, apiVars>>

\* the grid segmenter before it is called
GridIdle ==
    /\ img_size = <<0, 0>>
    /\ auto_detect = FALSE
    /\ rows = 0
    /\ cols = 0
    /\ padding = 0
    /\ cv_outcome = "ok"
    /\ hough_lines = <<{}, {}>>
    /\ color_diffs = <<<<>>, <<>>>>
    /\ h_lines = <<>>
    /\ v_lines = <<>>
    /\ sprite_crops = <<>>
    /\ sprite_paths = <<>>

\* the line clusterer before it is called
ClusterIdle ==
    /\ line_positions = <<>>
    /\ line_threshold = 0
    /\ clusters = <<>>

\* processing parameters as integers: size_ratio_threshold and
\* max_area_ratio in hundredths, min_area_ratio in ten-thousandths
DEFAULT_PROCESSING_PARAMS ==
    [distance_threshold |-> 80, size_ratio_threshold |-> 40, alpha_threshold |-> 50,
     min_area_ratio |-> 5, max_area_ratio |-> 25]

\* the API before a submission
ApiIdle ==
    /\ request = [endpoint |-> "", prompt |-> <<>>, model |-> "", auto_process |-> FALSE,
                  params |-> DEFAULT_PROCESSING_PARAMS, output_sizes_json |-> FALSE,
                  save_ok |-> TRUE]
    /\ sent_tasks = <<>>
    /\ upload_dir = {}
    /\ produced_sets = {}

\* the batch normaliser before it is called
BatchIdle ==
    /\ sprite_files = <<>>
    /\ size_configs = [given |-> FALSE, presets |-> <<>>]
    /\ pillow_rejects = FALSE
    /\ save_faults = {}
    /\ output_dirs = {}
    /\ written = {}
    /\ batch_error = "none"

\* the canvas normaliser before it is called
ResizeIdle ==
    /\ image_size = <<0, 0>>
    /\ size_config = <<0, 0, 0>>
    /\ new_size = <<0, 0>>
    /\ offset = <<0, 0>>
    /\ canvas_size = <<0, 0>>

(***************************************************************************)
(* Bounds of the model.                                                    *)
(***************************************************************************)
MaxRegions == 3
MaxInk == 2
MaxSpriteSide == 6
MaxSegments == 2
MaxSpikes == 2
MaxSprites == 2
MaxPresets == 2
MaxFaults == 1
MaxPromptLen == 2
MaxLines == 3
MaxPosition == 6
MaxLineDistance == 3
MaxJobs == 2

\* Sample domains the inputs of merge_nearby_small_boxes are drawn from.
\* <<x, y>>
BoxCorners == {<<0, 0>>, <<3, 0>>, <<1, 2>>}
\* <<w, h, pixelArea>>
BoxShapes == {<<1, 1, 1>>, <<2, 1, 2>>, <<2, 3, 5>>}
DistanceThresholds == {2, 3}
\* size_ratio_threshold in tenths: 0.4 (the default) and 1.0. For these two
\* values the double product median_area * size_ratio_threshold compares
\* with an integer area exactly as the rational product does.
SizeRatios == {4, 10}

(***************************************************************************)
(* Small helpers.                                                          *)
(***************************************************************************)
Min(S) == CHOOSE m \in S : \A k \in S : m <= k
Max(S) == CHOOSE m \in S : \A k \in S : m >= k
Range(s) == {s[i] : i \in 1..Len(s)}
Indices(s) == [i \in 1..Len(s) |-> i]

RECURSIVE SeqsUpTo(_, _)
SeqsUpTo(S, n) ==
    IF n = 0 THEN {<<>>}
    ELSE LET shorter == SeqsUpTo(S, n - 1)
         IN shorter \cup {Append(s, e) : s \in {t \in shorter : Len(t) = n - 1}, e \in S}

(***************************************************************************)
(* detect_bboxes_opencv (sprite_processor.py:102-141).                     *)
(* A raster is [w, h, ink]: alpha 0 everywhere except under the painted    *)
(* rectangles <<x, y, w, h, alpha>> of ink. A pixel (x, y) is the number   *)
(* y * w + x, so pixels are ordered as a raster scan visits them.          *)
(***************************************************************************)
Pix(img, x, y) == y * img.w + x
PixX(img, p) == p % img.w
PixY(img, p) == p \div img.w

RectPixels(img, r) ==
    {Pix(img, x, y) : x \in Max({0, r[1]})..Min({img.w - 1, r[1] + r[3] - 1}),
                      y \in Max({0, r[2]})..Min({img.h - 1, r[2] + r[4] - 1})}

\* cv2.threshold(alpha_channel, thresh, 255, THRESH_BINARY): the pixels with
\* alpha > thresh
Threshold(img, thresh) ==
    UNION {RectPixels(img, r) : r \in {q \in img.ink : q[5] > thresh}}

\* cv2.getStructuringElement(cv2.MORPH_ELLIPSE, (3, 3)): the 3x3 cross
kernel_small == {<<0, 0>>, <<1, 0>>, <<-1, 0>>, <<0, 1>>, <<0, -1>>}

InImage(img, x, y) == x >= 0 /\ x < img.w /\ y >= 0 /\ y < img.h

Dilate(img, S, kernel) ==
    UNION {{Pix(img, PixX(img, p) + d[1], PixY(img, p) + d[2]) : d \in
               {e \in kernel : InImage(img, PixX(img, p) + e[1], PixY(img, p) + e[2])}} :
           p \in S}

\* pixels beyond the border do not constrain an erosion
Erode(img, S, kernel) ==
    {p \in S : \A d \in kernel :
        InImage(img, PixX(img, p) + d[1], PixY(img, p) + d[2])
            => Pix(img, PixX(img, p) + d[1], PixY(img, p) + d[2]) \in S}

\* cv2.morphologyEx(binary, cv2.MORPH_CLOSE, kernel_small, iterations=1)
MorphClose(img, S) == Erode(img, Dilate(img, S, kernel_small), kernel_small)

Neighbours8(img, p) ==
    {Pix(img, PixX(img, p) + dx, PixY(img, p) + dy) : dx \in
        {e \in -1..1 : PixX(img, p) + e >= 0 /\ PixX(img, p) + e < img.w},
      dy \in {e \in -1..1 : PixY(img, p) + e >= 0 /\ PixY(img, p) + e < img.h}}

RECURSIVE Grow(_, _, _, _)
Grow(img, S, comp, frontier) ==
    IF frontier = {} THEN comp
    ELSE LET reached == (UNION {Neighbours8(img, p) : p \in frontier} \cap S) \ comp
         IN Grow(img, S, comp \cup reached, reached)

\* the 8-connected components of S, in the order a raster scan meets them
RECURSIVE Components(_, _)
Components(img, S) ==
    IF S = {} THEN <<>>
    ELSE LET seed == Min(S)
             comp == Grow(img, S, {seed}, {seed})
         IN <<comp>> \o Components(img, S \ comp)

StatsOf(img, label, comp) ==
    IF comp = {} THEN [label |-> label, area |-> 0, left |-> 0, top |-> 0,
                       width |-> 0, height |-> 0]
    ELSE LET xs == {PixX(img, p) : p \in comp}
             ys == {PixY(img, p) : p \in comp}
         IN [label |-> label, area |-> Cardinality(comp),
             left |-> Min(xs), top |-> Min(ys),
             width |-> Max(xs) - Min(xs) + 1, height |-> Max(ys) - Min(ys) + 1]

\* the background, label 0: its pixel count and the columns and rows it spans
BackgroundStats(img, S) ==
    LET spanCols == {x \in 0..(img.w - 1) : \E y \in 0..(img.h - 1) : Pix(img, x, y) \notin S}
        spanRows == {y \in 0..(img.h - 1) : \E x \in 0..(img.w - 1) : Pix(img, x, y) \notin S}
    IN IF spanCols = {} THEN StatsOf(img, 0, {})
       ELSE [label |-> 0, area |-> img.w * img.h - Cardinality(S),
             left |-> Min(spanCols), top |-> Min(spanRows),
             width |-> Max(spanCols) - Min(spanCols) + 1, height |-> Max(spanRows) - Min(spanRows) + 1]

\* cv2.connectedComponentsWithStats(binary, connectivity=8): the stats of
\* label 0 (the background) first, then of labels 1..num_labels-1
connectedComponentsWithStats(img, S) ==
    LET comps == Components(img, S)
    IN <<BackgroundStats(img, S)>>
       \o [i \in 1..Len(comps) |-> StatsOf(img, i, comps[i])]

\* (mutant) the area test with <= in place of <
AreaInRange_Inclusive(img, area, minr, maxr) ==
    /\ img.w * img.h * minr[1] <= area * minr[2]
    /\ area * maxr[2] <= img.w * img.h * maxr[1]

\* min_area < area < max_area, min_area = w * h * min_area_ratio
AreaInRange(img, area, minr, maxr) ==
    /\ img.w * img.h * minr[1] < area * minr[2]
    /\ area * maxr[2] < img.w * img.h * maxr[1]

\* aspect_ratio = float(bw) / bh if bh > 0 else 0;  0.05 < aspect_ratio < 20.0
AspectInRange(bw, bh) == bh > 0 /\ bh < 20 * bw /\ bw < 20 * bh

\* for i in range(1, num_labels), as positions in stats
LabelsExamined(st) == [i \in 1..(Len(st) - 1) |-> i + 1]

\* (mutant) the box appended as [x, y, bh, bw]
RegionsOf_SwappedSides(img, st, minr, maxr) ==
    LET kept == SelectSeq(LabelsExamined(st),
                          LAMBDA i : /\ AreaInRange(img, st[i].area, minr, maxr)
                                     /\ AspectInRange(st[i].width, st[i].height))
    IN [k \in 1..Len(kept) |->
           [bbox |-> <<st[kept[k]].left, st[kept[k]].top,
                       st[kept[k]].height, st[kept[k]].width>>,
            area |-> st[kept[k]].area,
            contour |-> st[kept[k]].label]]

\* the regions appended for the stats st
RegionsOf(img, st, minr, maxr) ==
    LET kept == SelectSeq(LabelsExamined(st),
                          LAMBDA i : /\ AreaInRange(img, st[i].area, minr, maxr)
                                     /\ AspectInRange(st[i].width, st[i].height))
    IN [k \in 1..Len(kept) |->
           [bbox |-> <<st[kept[k]].left, st[kept[k]].top,
                       st[kept[k]].width, st[kept[k]].height>>,
            area |-> st[kept[k]].area,
            contour |-> st[kept[k]].label]]

binary_of(img, thresh) == MorphClose(img, Threshold(img, thresh))

(***************************************************************************)
(* merge_nearby_small_boxes (sprite_processor.py:143-244).                 *)
(* A region is [bbox |-> <<x, y, w, h>>, area |-> pixelArea,               *)
(* contour |-> c]; the contour stands for the region's identity.           *)
(***************************************************************************)
\* areas = sorted([b['area'] for b in bboxes])
areas(bs) == SortSeq([i \in 1..Len(bs) |-> bs[i].area], LAMBDA a, b : a < b)

\* (mutant) the lower of the two middle elements for an even count
MedianOf_LowerMiddle(bs) == areas(bs)[((Len(bs) - 1) \div 2) + 1]

\* median_area = areas[len(areas) // 2]
MedianOf(bs) == areas(bs)[(Len(bs) \div 2) + 1]

\* b['area'] >= threshold_area, with threshold_area = median * ratio
AtLeastCutoff(area, median, ratio) == area * 10 >= median * ratio

\* large_boxes / small_boxes, as the positions of their members in bboxes
\* (bbox_to_idx maps each region object back to that position)
LargeOf(bs, ratio) ==
    LET median == MedianOf(bs)
    IN SelectSeq(Indices(bs), LAMBDA i : AtLeastCutoff(bs[i].area, median, ratio))

SmallOf(bs, ratio) ==
    LET median == MedianOf(bs)
    IN SelectSeq(Indices(bs), LAMBDA i : ~AtLeastCutoff(bs[i].area, median, ratio))

x_center(b) == b.bbox[1] + (b.bbox[3] \div 2)
y_center(b) == b.bbox[2] + (b.bbox[4] \div 2)

\* (mutant) the distance test with <= in place of <
IsNear_Inclusive(b1, b2, dist) ==
    LET dx == x_center(b1) - x_center(b2)
        dy == y_center(b1) - y_center(b2)
    IN dist >= 0 /\ dx * dx + dy * dy <= dist * dist

\* np.sqrt(dx**2 + dy**2) < distance_threshold
IsNear(b1, b2, dist) ==
    LET dx == x_center(b1) - x_center(b2)
        dy == y_center(b1) - y_center(b2)
    IN dist > 0 /\ dx * dx + dy * dy < dist * dist

RECURSIVE find(_, _)
find(parent, x) == IF parent[x] # x THEN find(parent, parent[x]) ELSE x

\* the path compression find() performs: parent[x] = find(parent[x])
RECURSIVE compress(_, _)
compress(parent, x) ==
    IF parent[x] # x
    THEN [compress(parent, parent[x]) EXCEPT ![x] = find(parent, x)]
    ELSE parent

\* (mutant) links the two nodes themselves, not their roots
union_NoRoots(parent, x, y) == [parent EXCEPT ![x] = y]

union(parent, x, y) ==
    LET px == find(parent, x)
        p1 == compress(parent, x)
        py == find(p1, y)
        p2 == compress(p1, y)
    IN IF px # py THEN [p2 EXCEPT ![px] = py] ELSE p2

\* pass 1: for large_box in large_boxes: for small_box in small_boxes
PassA(bs, dist, lg, sm) ==
    LET all == [k \in 1..(Len(lg) * Len(sm)) |->
                   <<lg[((k - 1) \div Len(sm)) + 1], sm[((k - 1) % Len(sm)) + 1]>>]
    IN SelectSeq(all, LAMBDA p : IsNear(bs[p[1]], bs[p[2]], dist))

\* (mutant) no second pass: large regions are never joined to each other
PassB_Skipped(bs, dist, lg) == <<>>

\* pass 2: for i, box1 in enumerate(large_boxes): for box2 in large_boxes[i+1:]
PassB(bs, dist, lg) ==
    LET n == Len(lg)
        all == [k \in 1..(n * n) |-> <<((k - 1) \div n) + 1, ((k - 1) % n) + 1>>]
        pairs == SelectSeq(all, LAMBDA p : p[1] < p[2])
    IN SelectSeq([k \in 1..Len(pairs) |-> <<lg[pairs[k][1]], lg[pairs[k][2]]>>],
                 LAMBDA p : IsNear(bs[p[1]], bs[p[2]], dist))

RECURSIVE ApplyUnions(_, _)
ApplyUnions(parent, pairs) ==
    IF pairs = <<>> THEN parent
    ELSE ApplyUnions(union(parent, Head(pairs)[1], Head(pairs)[2]), Tail(pairs))

\* the parent array after both passes
FinalParent(bs, dist, ratio) ==
    LET lg == LargeOf(bs, ratio)
        sm == SmallOf(bs, ratio)
    IN ApplyUnions(Indices(bs), PassA(bs, dist, lg, sm) \o PassB(bs, dist, lg))

\* (mutant) groups[root] = [bbox] in place of groups[root].append(bbox)
GroupMembers_Overwrite(bs, root, r) ==
    LET all == SelectSeq(Indices(bs), LAMBDA i : root[i] = r)
    IN <<all[Len(all)]>>

\* groups[root]: the members of the group of root r, in input order
GroupMembers(bs, root, r) == SelectSeq(Indices(bs), LAMBDA i : root[i] = r)

\* (mutant) the extent taken over the corners x, y alone, without x+w, y+h
MergeGroup_NoExtent(bs, members) ==
    LET all_x == {bs[i].bbox[1] : i \in Range(members)}
        all_y == {bs[i].bbox[2] : i \in Range(members)}
    IN [bbox |-> <<Min(all_x), Min(all_y), Max(all_x) - Min(all_x), Max(all_y) - Min(all_y)>>,
        area |-> (Max(all_x) - Min(all_x)) * (Max(all_y) - Min(all_y)),
        merged_from |-> Len(members),
        contours |-> [k \in 1..Len(members) |-> bs[members[k]].contour]]

\* one merged region per group: the enclosing rectangle of its members
MergeGroup(bs, members) ==
    LET all_x == UNION {{bs[i].bbox[1], bs[i].bbox[1] + bs[i].bbox[3]} : i \in Range(members)}
        all_y == UNION {{bs[i].bbox[2], bs[i].bbox[2] + bs[i].bbox[4]} : i \in Range(members)}
        merged_x == Min(all_x)
        merged_y == Min(all_y)
        merged_w == Max(all_x) - merged_x
        merged_h == Max(all_y) - merged_y
    IN [bbox |-> <<merged_x, merged_y, merged_w, merged_h>>,
        area |-> merged_w * merged_h,
        merged_from |-> Len(members),
        contours |-> [k \in 1..Len(members) |-> bs[members[k]].contour]]

merge_nearby_small_boxes(bs, dist, ratio) ==
    IF bs = <<>> THEN <<>>
    ELSE LET parent == FinalParent(bs, dist, ratio)
             root == [i \in 1..Len(bs) |-> find(parent, i)]
             first == SelectSeq(Indices(bs),
                                LAMBDA i : \A j \in 1..(i - 1) : root[j] # root[i])
         IN [g \in 1..Len(first) |->
                MergeGroup(bs, GroupMembers(bs, root, root[first[g]]))]

\* The direct inputs of merge_nearby_small_boxes: every list of at most
\* MaxRegions regions over the sample domains, each region a distinct object.
BoxChoices == BoxCorners \X BoxShapes

MkRegions(cs) ==
    [i \in 1..Len(cs) |->
        [bbox |-> <<cs[i][1][1], cs[i][1][2], cs[i][2][1], cs[i][2][2]>>,
         area |-> cs[i][2][3],
         contour |-> i]]

RegionLists == {MkRegions(cs) : cs \in SeqsUpTo(BoxChoices, MaxRegions)}

\* lists of four regions, each a 1x1 dot or a 2x3 block: the shortest lists
\* in which two regions are small
DotsAndBlocks == BoxCorners \X {<<1, 1, 1>>, <<2, 3, 5>>}
FourRegionLists == {MkRegions(cs) : cs \in [1..4 -> DotsAndBlocks]}

\* the jobs of the worker, in the order they are submitted
Jobs == 1..MaxJobs

\* what the result backend holds as the result of a task: nothing, the meta
\* of update_state, the exception of a retry or failure, or the returned dict
NoResult == [type |-> "none", progress |-> 0, step |-> "", status |-> "", error |-> ""]
Meta(progress, step) ==
    [type |-> "meta", progress |-> progress, step |-> step, status |-> "", error |-> ""]
Raised(e) == [type |-> "exception", progress |-> 0, step |-> "", status |-> "", error |-> e]
ReturnValue(status, e) ==
    [type |-> "return", progress |-> 0, step |-> "", status |-> status, error |-> e]

\* a job that was not submitted: Celery reports PENDING for an id it does
\* not know
NewJob ==
    [task_name |-> "none",
     at |-> "none",                 \* where its run is
     status |-> "PENDING",          \* AsyncResult.status
     result |-> NoResult,           \* AsyncResult.result
     retries |-> 0,                 \* self.request.retries
     countdown |-> 0,               \* the delay of the message in the queue
     task_output_dir |-> FALSE,     \* TEMP_DIR/<task_id> exists
     reference_image |-> FALSE,     \* the uploaded reference image exists
     upload |-> FALSE,              \* UPLOAD_DIR/<task_id>.png of /process exists
     archive |-> FALSE,             \* RESULT_DIR/sprites_<task_id>.zip exists
     reported |-> <<>>]             \* the update_state calls so far: <<run, state, progress>>

\* an HTTP response: its status code (0 while the handler has not returned),
\* the keys of its JSON body, and whether its body is the zip file
NoResponse ==
    [task_id |-> 0, code |-> 0, status |-> "", download_url |-> FALSE,
     result |-> NoResult, error |-> "", file |-> FALSE]

\* the worker and the API before any job
TasksIdle ==
    /\ job = [j \in Jobs |-> NewJob]
    /\ processor = 0
    /\ generator = 0
    /\ response = NoResponse

\* no region list
MergeIdle ==
    /\ bboxes = <<>>
    /\ distance_threshold = 0
    /\ size_ratio_threshold = 0
    /\ median_area = 0
    /\ large_boxes = <<>>
    /\ small_boxes = <<>>
    /\ merged_boxes = <<>>

\* the detection state of a call that starts at the merge step
DetectIdle ==
    /\ alpha_channel = [w |-> 0, h |-> 0, ink |-> {}]
    /\ alpha_threshold = 0
    /\ min_area_ratio = <<0, 1>>
    /\ max_area_ratio = <<0, 1>>
    /\ stats = <<>>

InitMerge ==
    /\ pc = "detected"
    /\ TasksIdle
    /\ ApiIdle
    /\ BatchIdle
    /\ ClusterIdle
    /\ DetectIdle
    /\ ResizeIdle
    /\ GridIdle
    /\ bboxes \in RegionLists \cup FourRegionLists
    /\ distance_threshold \in DistanceThresholds
    /\ size_ratio_threshold \in SizeRatios
    /\ median_area = 0
    /\ large_boxes = <<>>
    /\ small_boxes = <<>>
    /\ merged_boxes = <<>>

\* split_sprites step 3 (sprite_processor.py:271-275)
Merge ==
    /\ pc = "detected"
    /\ merged_boxes' = merge_nearby_small_boxes(bboxes, distance_threshold,
                                                size_ratio_threshold)
    /\ IF bboxes = <<>>
       THEN UNCHANGED <<median_area, large_boxes, small_boxes>>
       ELSE /\ median_area' = MedianOf(bboxes)
            /\ large_boxes' = LargeOf(bboxes, size_ratio_threshold)
            /\ small_boxes' = SmallOf(bboxes, size_ratio_threshold)
    /\ pc' = "merged"
    /\ UNCHANGED <<bboxes, distance_threshold, size_ratio_threshold>>
    /\ UNCHANGED <<detectVars, resizeVars, gridVars, taskVars, clusterVars, batchVars, apiVars>>

NextMerge == Merge

SpecMerge == InitMerge /\ [][NextMerge]_vars

(***************************************************************************)
(* The detection and merge steps of split_sprites on a raster              *)
(* (sprite_processor.py:267-275), the background removal left out: the     *)
(* alpha raster is the input.                                              *)
(***************************************************************************)
\* Sample rasters: a 24 x 24 raster with at most MaxInk painted rectangles,
\* and 512 x 512 rasters with two opaque 40 x 40 squares.
SmallSide == 24
InkCorners == {<<2, 2>>, <<6, 2>>, <<5, 5>>}
InkShapes == {<<1, 19>>, <<1, 20>>, <<19, 1>>, <<20, 1>>,
              <<3, 3>>, <<2, 5>>, <<12, 12>>, <<11, 13>>}
InkAlphas == {50, 51}
InkChoices ==
    {<<c[1], c[2], sh[1], sh[2], a>> : c \in InkCorners, sh \in InkShapes, a \in InkAlphas}

RECURSIVE SubsetsUpTo(_, _)
SubsetsUpTo(S, n) ==
    IF n = 0 THEN {{}}
    ELSE LET smaller == SubsetsUpTo(S, n - 1)
         IN smaller \cup {T \cup {e} : T \in smaller, e \in S}

SmallRasters ==
    {[w |-> SmallSide, h |-> SmallSide, ink |-> ink] : ink \in SubsetsUpTo(InkChoices, MaxInk)}

\* an opaque side x side square centred at (cx, cy)
Square(cx, cy, side) == <<cx - (side \div 2), cy - (side \div 2), side, side, 255>>

TwoSquares(cx2) ==
    [w |-> 512, h |-> 512, ink |-> {Square(100, 100, 40), Square(cx2, 100, 40)}]

LargeRasters == {TwoSquares(130), TwoSquares(150)}

\* the default thresholds of split_sprites and values whose bounds are hit
\* exactly on the 24 x 24 raster
MinAreaRatios == {<<1, 2000>>, <<1, 64>>}
MaxAreaRatios == {<<1, 4>>, <<9, 10>>}
PipelineDistances == {10, 80}

InitDetect ==
    /\ pc = "start"
    /\ TasksIdle
    /\ ApiIdle
    /\ BatchIdle
    /\ ClusterIdle
    /\ ResizeIdle
    /\ GridIdle
    /\ alpha_channel \in SmallRasters \cup LargeRasters
    /\ alpha_threshold = 50
    /\ min_area_ratio \in MinAreaRatios
    /\ max_area_ratio \in MaxAreaRatios
    /\ stats = <<>>
    /\ bboxes = <<>>
    /\ distance_threshold \in PipelineDistances
    /\ size_ratio_threshold = 4
    /\ median_area = 0
    /\ large_boxes = <<>>
    /\ small_boxes = <<>>
    /\ merged_boxes = <<>>

\* split_sprites step 2 (sprite_processor.py:268)
Detect ==
    /\ pc = "start"
    /\ LET st == connectedComponentsWithStats(alpha_channel,
                                              binary_of(alpha_channel, alpha_threshold))
       IN /\ stats' = st
          /\ bboxes' = RegionsOf(alpha_channel, st, min_area_ratio, max_area_ratio)
    /\ pc' = "detected"
    /\ UNCHANGED <<alpha_channel, alpha_threshold, min_area_ratio, max_area_ratio>>
    /\ UNCHANGED <<distance_threshold, size_ratio_threshold, median_area,
                   large_boxes, small_boxes, merged_boxes>>
    /\ UNCHANGED <<resizeVars, gridVars, taskVars, clusterVars, batchVars, apiVars>>

NextDetect == Detect \/ Merge

SpecDetect == InitDetect /\ [][NextDetect]_vars

(***************************************************************************)
(* Python floats. max_size / longer_side and orig_width * scale are        *)
(* IEEE-754 double operations, rounded to nearest, ties to even. A         *)
(* positive double is [mant, exp]: mant a sequence of MantBits bits, most  *)
(* significant first and equal to 1, standing for the integer they spell   *)
(* times 2^exp.                                                            *)
(***************************************************************************)
MantBits == 53

RECURSIVE IntBits(_)
\* the binary digits of n >= 1, most significant first
IntBits(n) == IF n < 2 THEN <<n>> ELSE Append(IntBits(n \div 2), n % 2)

RECURSIVE ValueOfFirst(_, _)
\* the integer the first n digits of bits spell
ValueOfFirst(bits, n) == IF n = 0 THEN 0 ELSE 2 * ValueOfFirst(bits, n - 1) + bits[n]

BitsToInt(bits) == ValueOfFirst(bits, Len(bits))

\* bits + 1; one digit longer when every digit is 1
Increment(bits) ==
    LET zeros == {i \in 1..Len(bits) : bits[i] = 0}
    IN IF zeros = {} THEN [i \in 1..(Len(bits) + 1) |-> IF i = 1 THEN 1 ELSE 0]
       ELSE [i \in 1..Len(bits) |->
                IF i < Max(zeros) THEN bits[i] ELSE IF i = Max(zeros) THEN 1 ELSE 0]

\* the double nearest to bits * 2^exp (+ a non-zero tail below the last digit
\* when sticky), for Len(bits) >= MantBits and bits[1] = 1
RoundToDouble(bits, exp, sticky) ==
    LET n == Len(bits)
        kept == SubSeq(bits, 1, MantBits)
        guard == IF n > MantBits THEN bits[MantBits + 1] ELSE 0
        tail == sticky \/ \E i \in (MantBits + 2)..n : bits[i] = 1
        up == guard = 1 /\ (tail \/ kept[MantBits] = 1)
        raised == Increment(kept)
    IN IF ~up THEN [mant |-> kept, exp |-> exp + (n - MantBits)]
       ELSE IF Len(raised) > MantBits
            THEN [mant |-> SubSeq(raised, 1, MantBits),
                  exp |-> exp + (n - MantBits) + 1]
            ELSE [mant |-> raised, exp |-> exp + (n - MantBits)]

\* Long arithmetic is done on limbs of LimbBits binary digits.
LimbBits == 11

RECURSIVE Pow2(_)
Pow2(k) == IF k = 0 THEN 1 ELSE 2 * Pow2(k - 1)

LimbBase == Pow2(LimbBits)

\* the binary digits of a sequence of limbs
LimbsToBits(limbs) ==
    [i \in 1..(Len(limbs) * LimbBits) |->
        (limbs[((i - 1) \div LimbBits) + 1]
            \div Pow2(LimbBits - 1 - ((i - 1) % LimbBits))) % 2]

\* the limbs of a digit sequence whose length is a multiple of LimbBits
BitsToLimbs(bits) ==
    [j \in 1..(Len(bits) \div LimbBits) |->
        BitsToInt(SubSeq(bits, (j - 1) * LimbBits + 1, j * LimbBits))]

\* bits without its leading zeros
StripLeading(bits) ==
    SubSeq(bits, Min({i \in 1..Len(bits) : bits[i] = 1}), Len(bits))

\* bits with leading zeros up to a multiple of LimbBits
PadLeading(bits) ==
    LET pad == (LimbBits - (Len(bits) % LimbBits)) % LimbBits
    IN [i \in 1..pad |-> 0] \o bits

RECURSIVE QuotientLimbs(_, _, _)
\* the first n limbs of r / L after the point, for 0 <= r < L
QuotientLimbs(r, L, n) ==
    IF n = 0 THEN <<>>
    ELSE <<(r * LimbBase) \div L>> \o QuotientLimbs((r * LimbBase) % L, L, n - 1)

RECURSIVE RemainderAfter(_, _, _)
\* what is left of r / L after those n limbs
RemainderAfter(r, L, n) ==
    IF n = 0 THEN r ELSE RemainderAfter((r * LimbBase) % L, L, n - 1)

RECURSIVE LeadShift(_, _)
\* the least s >= 1 with m * 2^s >= L, for 1 <= m < L
LeadShift(m, L) == IF 2 * m >= L THEN 1 ELSE 1 + LeadShift(2 * m, L)

\* the double m / L of two ints with 1 <= m < L: the quotient is developed
\* two digits beyond the mantissa, then rounded
FloatDiv(m, L) ==
    LET s == LeadShift(m, L)
        r == m * Pow2(s - 1)
        n == ((MantBits + 2) \div LimbBits) + 1
        digits == QuotientLimbs(r, L, n)
    IN RoundToDouble(LimbsToBits(digits), -(s - 1) - n * LimbBits,
                     RemainderAfter(r, L, n) # 0)

RECURSIVE CarryInto(_, _, _)
\* the carry of limbs * k out of the limbs after position i
CarryInto(limbs, k, i) ==
    IF i = Len(limbs) THEN 0
    ELSE (limbs[i + 1] * k + CarryInto(limbs, k, i + 1)) \div LimbBase

\* the digits of bits * k, for 1 <= k < LimbBase
TimesInt(bits, k) ==
    LET limbs == BitsToLimbs(PadLeading(bits))
        high == CarryInto(limbs, k, 0)
        low == [i \in 1..Len(limbs) |-> (limbs[i] * k + CarryInto(limbs, k, i)) % LimbBase]
    IN StripLeading(LimbsToBits(<<high>> \o low))

\* the double k * d of an int k >= 1 (converted exactly) and a double d
FloatMulInt(k, d) ==
    LET product == TimesInt(d.mant, k)
    IN RoundToDouble(product, d.exp, FALSE)

\* int(d): the digits left of the point
FloatToInt(d) ==
    IF d.exp >= 0 THEN BitsToInt(d.mant) * Pow2(d.exp)
    ELSE IF -d.exp >= MantBits THEN 0
    ELSE BitsToInt(SubSeq(d.mant, 1, MantBits + d.exp))

(***************************************************************************)
(* _resize_and_center (sprite_processor.py:365-387), called by             *)
(* resize_sprites for each sprite and size preset.                         *)
(***************************************************************************)
SIZE_PRESETS == {<<260, 280, 280>>, <<220, 240, 240>>, <<70, 96, 74>>}

\* caller-supplied presets, as parse_sizes_arg accepts them
CustomPresets == {<<13, 16, 16>>, <<32, 32, 32>>, <<100, 200, 100>>,
                  <<100, 50, 50>>, <<4, 5, 3>>}

SampleSides == {23, 80, 153, 300, 340}
SpriteSides == (1..MaxSpriteSide) \cup SampleSides

\* (mutant) the shorter side taken for the longer one
longer_side_Shorter(orig_width, orig_height) ==
    IF orig_width <= orig_height THEN orig_width ELSE orig_height

\* longer_side = max(orig_width, orig_height)
longer_side(orig_width, orig_height) ==
    IF orig_width >= orig_height THEN orig_width ELSE orig_height

\* int(orig * scale) with scale = max_size / longer, for 1 <= max_size < longer
Scaled(orig, max_size, longer) == FloatToInt(FloatMulInt(orig, FloatDiv(max_size, longer)))

\* <<new_width, new_height>>, for max_size >= 1
NewSize(orig_width, orig_height, max_size) ==
    LET longer == longer_side(orig_width, orig_height)
    IN IF longer > max_size
       THEN <<Scaled(orig_width, max_size, longer), Scaled(orig_height, max_size, longer)>>
       ELSE <<orig_width, orig_height>>

\* image.resize: a size with an empty side is rejected with ValueError or
\* gives an empty image, as the installed Pillow decides
ResizeOutcomes(size) ==
    IF size[1] < 1 \/ size[2] < 1 THEN {"ValueError", "resized"} ELSE {"resized"}

InitResize ==
    /\ pc = "sprite"
    /\ TasksIdle
    /\ ApiIdle
    /\ BatchIdle
    /\ ClusterIdle
    /\ DetectIdle
    /\ GridIdle
    /\ bboxes = <<>>
    /\ distance_threshold = 0
    /\ size_ratio_threshold = 0
    /\ median_area = 0
    /\ large_boxes = <<>>
    /\ small_boxes = <<>>
    /\ merged_boxes = <<>>
    /\ image_size \in SpriteSides \X SpriteSides
    /\ size_config \in SIZE_PRESETS \cup CustomPresets
    /\ new_size = <<0, 0>>
    /\ offset = <<0, 0>>
    /\ canvas_size = <<0, 0>>

ResizeAndCenter ==
    /\ pc = "sprite"
    /\ LET size == NewSize(image_size[1], image_size[2], size_config[1])
       IN /\ new_size' = size
          /\ \E outcome \in ResizeOutcomes(size) :
                IF outcome = "ValueError"
                THEN /\ pc' = "failed"
                     /\ UNCHANGED <<offset, canvas_size>>
                ELSE /\ pc' = "centered"
                     /\ offset' = <<(size_config[2] - size[1]) \div 2,
                                    (size_config[3] - size[2]) \div 2>>
                     /\ canvas_size' = <<size_config[2], size_config[3]>>
    /\ UNCHANGED <<image_size, size_config>>
    /\ UNCHANGED <<detectVars, mergeVars, gridVars, taskVars, clusterVars, batchVars, apiVars>>

NextResize == ResizeAndCenter

SpecResize == InitResize /\ [][NextResize]_vars

(***************************************************************************)
(* resize_sprites: every sprite of a directory normalised for every size   *)
(* preset.                                                                 *)
(***************************************************************************)
\* SIZE_PRESETS with its keys, in the order of the dict
NamedSizePresets ==
    << [size_name |-> "large",  config |-> <<260, 280, 280>>],
       [size_name |-> "medium", config |-> <<220, 240, 240>>],
       [size_name |-> "small",  config |-> <<70, 96, 74>>] >>

\* presets a caller passes as size_configs
NamedCustomPresets ==
    { [size_name |-> "tiny_icon", config |-> <<32, 32, 32>>],
      [size_name |-> "banner",    config |-> <<100, 200, 100>>],
      [size_name |-> "thumb",     config |-> <<4, 5, 3>>] }

\* the sprites of a directory: their sizes, and whether Image.open reads them
BatchSpriteSizes == {<<1, 6>>, <<3, 2>>}

\* if size_configs is None: size_configs = self.SIZE_PRESETS
effective_configs(configs) ==
    IF configs.given THEN configs.presets ELSE NamedSizePresets

\* the body of the try block for one sprite and one preset: "saved", or the
\* exception raised by Image.open, by _resize_and_center or by save
try_body(files, i, preset, rejects, faults) ==
    IF ~files[i].readable THEN "UnidentifiedImageError"
    ELSE LET size == NewSize(files[i].size[1], files[i].size[2], preset.config[1])
         IN IF (size[1] < 1 \/ size[2] < 1) /\ rejects THEN "ValueError"
            ELSE IF <<preset.size_name, i>> \in faults THEN "OSError"
            ELSE "saved"

\* (mutant) except OSError in place of except Exception
except_OSError(e) == e = "OSError"

\* except Exception as e: whether the clause catches e
except_Exception(e) == e \in {"UnidentifiedImageError", "ValueError", "OSError"}

\* the two loops from preset p, sprite i on; acc is what was written so far
RECURSIVE resize_loop(_, _, _, _, _, _, _)
resize_loop(files, presets, p, i, rejects, faults, acc) ==
    IF p > Len(presets)
    THEN [written |-> acc, raised |-> "none", entered |-> Len(presets)]
    ELSE IF i > Len(files)
         THEN resize_loop(files, presets, p + 1, 1, rejects, faults, acc)
         ELSE LET outcome == try_body(files, i, presets[p], rejects, faults)
              IN IF outcome = "saved"
                 THEN resize_loop(files, presets, p, i + 1, rejects, faults,
                                  acc \cup {<<presets[p].size_name, i>>})
                 ELSE IF except_Exception(outcome)
                      THEN resize_loop(files, presets, p, i + 1, rejects, faults, acc)
                      ELSE [written |-> acc, raised |-> outcome, entered |-> p]

\* the size directories made: output_dir.mkdir runs as each preset is entered
dirs_made(presets, result) == {presets[p].size_name : p \in 1..result.entered}

\* presets of distinct names, as the keys of a dict are
CustomConfigs ==
    {ps \in SeqsUpTo(NamedCustomPresets, MaxPresets) :
        \A a, b \in 1..Len(ps) : a # b => ps[a].size_name # ps[b].size_name}

InitBatch ==
    /\ pc = "sprites"
    /\ TasksIdle
    /\ ApiIdle
    /\ ClusterIdle
    /\ DetectIdle
    /\ MergeIdle
    /\ ResizeIdle
    /\ GridIdle
    /\ sprite_files \in SeqsUpTo([size : BatchSpriteSizes, readable : BOOLEAN], MaxSprites)
    /\ size_configs \in {[given |-> FALSE, presets |-> <<>>]}
                          \cup {[given |-> TRUE, presets |-> ps] : ps \in CustomConfigs}
    /\ pillow_rejects \in BOOLEAN
    /\ save_faults \in {fs \in SUBSET ({preset.size_name :
                                           preset \in Range(effective_configs(size_configs))}
                                        \X (1..Len(sprite_files))) :
                           Cardinality(fs) <= MaxFaults}
    /\ output_dirs = {}
    /\ written = {}
    /\ batch_error = "none"

ResizeSprites ==
    /\ pc = "sprites"
    /\ LET presets == effective_configs(size_configs)
       IN IF sprite_files = <<>>
          THEN UNCHANGED <<output_dirs, written, batch_error>>
          ELSE LET result == resize_loop(sprite_files, presets, 1, 1,
                                         pillow_rejects, save_faults, {})
               IN /\ written' = result.written
                  /\ batch_error' = result.raised
                  /\ output_dirs' = dirs_made(presets, result)
    /\ pc' = "resized"
    /\ UNCHANGED <<sprite_files, size_configs, pillow_rejects, save_faults>>
    /\ UNCHANGED <<detectVars, mergeVars, resizeVars, gridVars, taskVars, clusterVars, apiVars>>

SpecBatch == InitBatch /\ [][ResizeSprites]_vars

(***************************************************************************)
(* The grid segmenter: _cluster_lines, detect_grid_lines,                  *)
(* detect_grid_by_color_diff and split_by_grid                             *)
(* (sprite_processor.py:391-657). What OpenCV finds in the raster is an    *)
(* input: the segments HoughLinesP returns and the column and row colour   *)
(* differences.                                                            *)
(***************************************************************************)
RECURSIVE SumSeq(_)
SumSeq(s) == IF s = <<>> THEN 0 ELSE s[1] + SumSeq(Tail(s))

\* sorted(set(positions)), for a set of positions
SortedSeq(S) == SortSeq(CHOOSE s \in [1..Cardinality(S) -> S] : Range(s) = S,
                        LAMBDA a, b : a < b)

\* int(np.mean(current_cluster)), positions being non-negative
ClusterMean(cluster) == SumSeq(cluster) \div Len(cluster)

RECURSIVE ClusterFrom_FromFirst(_, _, _, _)
\* (mutant) the gap measured from the first position of the cluster
ClusterFrom_FromFirst(positions, i, current_cluster, distance) ==
    IF i > Len(positions) THEN <<ClusterMean(current_cluster)>>
    ELSE IF positions[i] - current_cluster[1] <= distance
         THEN ClusterFrom_FromFirst(positions, i + 1,
                                    Append(current_cluster, positions[i]), distance)
         ELSE <<ClusterMean(current_cluster)>>
              \o ClusterFrom_FromFirst(positions, i + 1, <<positions[i]>>, distance)

RECURSIVE ClusterFrom(_, _, _, _)
\* the loop of _cluster_lines from positions[i] on, with current_cluster
ClusterFrom(positions, i, current_cluster, distance) ==
    IF i > Len(positions) THEN <<ClusterMean(current_cluster)>>
    ELSE IF positions[i] - current_cluster[Len(current_cluster)] <= distance
         THEN ClusterFrom(positions, i + 1, Append(current_cluster, positions[i]), distance)
         ELSE <<ClusterMean(current_cluster)>>
              \o ClusterFrom(positions, i + 1, <<positions[i]>>, distance)

\* _cluster_lines(positions, distance_threshold), positions given as a set
cluster_lines(positions, distance) ==
    IF positions = {} THEN <<>>
    ELSE LET sorted == SortedSeq(positions)
         IN ClusterFrom(sorted, 2, <<sorted[1]>>, distance)

\* _cluster_lines called on its own: every list of up to MaxLines positions
\* in 0..MaxPosition, every distance_threshold in 0..MaxLineDistance
InitCluster ==
    /\ pc = "lines"
    /\ TasksIdle
    /\ ApiIdle
    /\ BatchIdle
    /\ DetectIdle
    /\ MergeIdle
    /\ ResizeIdle
    /\ GridIdle
    /\ line_positions \in SeqsUpTo(0..MaxPosition, MaxLines)
    /\ line_threshold \in 0..MaxLineDistance
    /\ clusters = <<>>

ClusterLines ==
    /\ pc = "lines"
    /\ clusters' = cluster_lines(Range(line_positions), line_threshold)
    /\ pc' = "clustered"
    /\ UNCHANGED <<line_positions, line_threshold>>
    /\ UNCHANGED <<detectVars, mergeVars, resizeVars, gridVars, taskVars, batchVars, apiVars>>

SpecCluster == InitCluster /\ [][ClusterLines]_vars

edge_margin == 10
cluster_distance == 20
diff_threshold == 30

Abs(x) == IF x < 0 THEN -x ELSE x

\* the y of the near-horizontal segments <<x1, y1, x2, y2>> away from the edges
horizontal_positions(segments, h) ==
    {(seg[2] + seg[4]) \div 2 : seg \in
        {g \in segments : /\ Abs(g[4] - g[2]) < 20
                          /\ edge_margin < (g[2] + g[4]) \div 2
                          /\ (g[2] + g[4]) \div 2 < h - edge_margin}}

\* the x of the near-vertical segments away from the edges
vertical_positions(segments, w) ==
    {(seg[1] + seg[3]) \div 2 : seg \in
        {g \in segments : /\ Abs(g[3] - g[1]) < 20
                          /\ edge_margin < (g[1] + g[3]) \div 2
                          /\ (g[1] + g[3]) \div 2 < w - edge_margin}}

\* detect_grid_lines: <<horizontal_lines, vertical_lines>>
detect_grid_lines(size, found) ==
    <<<<0>> \o cluster_lines(horizontal_positions(found[1], size[2]), cluster_distance)
           \o <<size[2]>>,
      <<0>> \o cluster_lines(vertical_positions(found[2], size[1]), cluster_distance)
           \o <<size[1]>>>>

\* [i+1 for i in range(len(diffs)) if diffs[i] > diff_threshold * np.mean(diffs)]
Flagged(diffs) ==
    {i \in 1..Len(diffs) : diffs[i] * Len(diffs) > diff_threshold * SumSeq(diffs)}

\* detect_grid_by_color_diff: <<horizontal_lines, vertical_lines>>
detect_grid_by_color_diff(size, diffs) ==
    <<<<0>> \o cluster_lines(Flagged(diffs[2]), 20) \o <<size[2]>>,
      <<0>> \o cluster_lines(Flagged(diffs[1]), 20) \o <<size[1]>>>>

\* (mutant) range(n) in place of range(n + 1)
EvenLines_NoLast(n, extent) ==
    IF n < 0 THEN <<>>
    ELSE [i \in 1..n |-> ((i - 1) * extent) \div n]

\* [int(i * extent / n) for i in range(n + 1)], for n # 0
EvenLines(n, extent) ==
    IF n < 0 THEN <<>>
    ELSE [i \in 1..(n + 1) |-> ((i - 1) * extent) \div n]

\* the crop rectangle <<x1_crop, y1_crop, x2_crop, y2_crop>> of cell (row, col)
CropOf(hl, vl, row, col, pad) ==
    <<Min({vl[col] + pad, vl[col + 1]}), Min({hl[row] + pad, hl[row + 1]}),
      Max({vl[col + 1] - pad, vl[col]}), Max({hl[row + 1] - pad, hl[row]})>>

\* (mutant) sprite_idx advanced for a skipped cell as well
RECURSIVE SaveLoop_CountsSkipped(_, _, _, _, _)
SaveLoop_CountsSkipped(hl, vl, pad, k, sprite_idx) ==
    LET num_rows == Len(hl) - 1
        num_cols == Len(vl) - 1
    IN IF num_rows <= 0 \/ num_cols <= 0 \/ k > num_rows * num_cols
       THEN <<>>
       ELSE LET crop == CropOf(hl, vl, ((k - 1) \div num_cols) + 1, ((k - 1) % num_cols) + 1, pad)
            IN IF crop[3] <= crop[1] \/ crop[4] <= crop[2]
               THEN SaveLoop_CountsSkipped(hl, vl, pad, k + 1, sprite_idx + 1)
               ELSE <<[file |-> sprite_idx, crop |-> crop]>>
                    \o SaveLoop_CountsSkipped(hl, vl, pad, k + 1, sprite_idx + 1)

\* the loop over the cells, from the k-th cell in row-major order on: the
\* sprites it saves, each with the number in its file name and its crop
RECURSIVE SaveLoop(_, _, _, _, _)
SaveLoop(hl, vl, pad, k, sprite_idx) ==
    LET num_rows == Len(hl) - 1
        num_cols == Len(vl) - 1
    IN IF num_rows <= 0 \/ num_cols <= 0 \/ k > num_rows * num_cols
       THEN <<>>
       ELSE LET crop == CropOf(hl, vl, ((k - 1) \div num_cols) + 1, ((k - 1) % num_cols) + 1, pad)
            IN IF crop[3] <= crop[1] \/ crop[4] <= crop[2]
               THEN SaveLoop(hl, vl, pad, k + 1, sprite_idx)
               ELSE <<[file |-> sprite_idx, crop |-> crop]>>
                    \o SaveLoop(hl, vl, pad, k + 1, sprite_idx + 1)

\* the crops of the sprites saved, those without a valid size left out
CropsOf(hl, vl, pad) ==
    LET saved == SaveLoop(hl, vl, pad, 1, 0)
    IN [i \in 1..Len(saved) |-> saved[i].crop]

\* the numbers in the file names sprite_000.png, sprite_001.png, ...
PathsOf(hl, vl, pad) ==
    LET saved == SaveLoop(hl, vl, pad, 1, 0)
    IN [i \in 1..Len(saved) |-> saved[i].file]

\* Sample inputs of split_by_grid.
GridSizes == {<<2, 3>>, <<9, 10>>, <<40, 40>>, <<64, 40>>}
PaddingChoices == {-1, 0, 2, 5}
RowChoices == {-1, 0, 1, 2, 3}
\* segments <<x1, y1, x2, y2>> as HoughLinesP reports them for horizontal
\* lines; the vertical ones are their transposes
SampleSegments == {<<0, 11, 39, 11>>, <<0, 12, 39, 15>>, <<0, 34, 39, 33>>, <<0, 5, 39, 28>>}
Transposed(segments) == {<<g[2], g[1], g[4], g[3]>> : g \in segments}
SpikePositions == {12, 30, 36}

\* the segments that lie in an image of the given size
SegmentsIn(size) ==
    {g \in SampleSegments : g[1] < size[1] /\ g[3] < size[1] /\ g[2] < size[2] /\ g[4] < size[2]}

\* n colour differences, 255 at the spikes and 0 elsewhere
DiffsOf(n, spikes) == [i \in 1..n |-> IF i \in spikes THEN 255 ELSE 0]

\* nothing is detected on the image
NothingFound ==
    /\ hough_lines = <<{}, {}>>
    /\ color_diffs = <<<<>>, <<>>>>

InitGrid ==
    /\ pc = "grid"
    /\ TasksIdle
    /\ ApiIdle
    /\ BatchIdle
    /\ ClusterIdle
    /\ DetectIdle
    /\ ResizeIdle
    /\ bboxes = <<>>
    /\ distance_threshold = 0
    /\ size_ratio_threshold = 0
    /\ median_area = 0
    /\ large_boxes = <<>>
    /\ small_boxes = <<>>
    /\ merged_boxes = <<>>
    /\ img_size \in GridSizes
    /\ h_lines = <<>>
    /\ v_lines = <<>>
    /\ sprite_crops = <<>>
    /\ sprite_paths = <<>>
    /\ \/ /\ auto_detect = FALSE
          /\ rows \in RowChoices
          /\ cols \in RowChoices
          /\ padding \in PaddingChoices
          /\ cv_outcome \in {"ok", "unreadable"}
          /\ NothingFound
       \/ /\ auto_detect = TRUE
          /\ rows \in RowChoices
          /\ cols \in RowChoices
          /\ padding = 2
          /\ cv_outcome \in {"unreadable", "error"}
          /\ NothingFound
       \/ /\ auto_detect = TRUE
          /\ padding = 2
          /\ \E given \in {<<0, 0>>, <<2, 2>>} : rows = given[1] /\ cols = given[2]
          /\ cv_outcome = "ok"
          /\ \E hs \in SubsetsUpTo(SegmentsIn(img_size), MaxSegments),
                vs \in SubsetsUpTo(SegmentsIn(<<img_size[2], img_size[1]>>), MaxSegments) :
                hough_lines = <<hs, Transposed(vs)>>
          /\ \E cs \in SubsetsUpTo(SpikePositions \cap (1..(img_size[1] - 1)), MaxSpikes),
                rs \in SubsetsUpTo(SpikePositions \cap (1..(img_size[2] - 1)), MaxSpikes) :
                color_diffs = <<DiffsOf(img_size[1] - 1, cs), DiffsOf(img_size[2] - 1, rs)>>

\* split_by_grid (sprite_processor.py:542-657)
SplitByGrid ==
    /\ pc = "grid"
    /\ LET hough == detect_grid_lines(img_size, hough_lines)
           color == detect_grid_by_color_diff(img_size, color_diffs)
           manual == <<EvenLines(rows, img_size[2]), EvenLines(cols, img_size[1])>>
           Finish(lines, how) ==
               /\ h_lines' = lines[1]
               /\ v_lines' = lines[2]
               /\ sprite_crops' = CropsOf(lines[1], lines[2], padding)
               /\ sprite_paths' = PathsOf(lines[1], lines[2], padding)
               /\ pc' = how
           \* vis_img is None: the first cv2.rectangle, or else cv2.imwrite, raises
           Crash(lines) ==
               /\ h_lines' = lines[1]
               /\ v_lines' = lines[2]
               /\ sprite_crops' = LET crops == CropsOf(lines[1], lines[2], padding)
                                  IN IF crops = <<>> THEN <<>> ELSE <<crops[1]>>
               /\ sprite_paths' = LET paths == PathsOf(lines[1], lines[2], padding)
                                  IN IF paths = <<>> THEN <<>> ELSE <<paths[1]>>
               /\ pc' = "cv2.error"
           Manual ==
               IF cv_outcome = "unreadable" THEN Crash(manual) ELSE Finish(manual, "manual")
           Fail ==
               /\ pc' = "ValueError"
               /\ UNCHANGED <<h_lines, v_lines, sprite_crops, sprite_paths>>
       IN IF auto_detect
          THEN IF cv_outcome = "ok"
               THEN IF Len(hough[1]) <= 2 \/ Len(hough[2]) <= 2
                    THEN Finish(color, "color")
                    ELSE Finish(hough, "hough")
               ELSE IF rows # 0 /\ cols # 0 THEN Manual ELSE Fail
          ELSE IF rows = 0 \/ cols = 0 THEN Fail ELSE Manual
    /\ UNCHANGED <<img_size, auto_detect, rows, cols, padding, cv_outcome,
                   hough_lines, color_diffs>>
    /\ UNCHANGED <<detectVars, mergeVars, resizeVars, taskVars, clusterVars, batchVars, apiVars>>

NextGrid == SplitByGrid

SpecGrid == InitGrid /\ [][NextGrid]_vars

(***************************************************************************)
(* The Celery tasks of worker/tasks.py, run by one worker process that     *)
(* takes one job at a time, and the endpoints of api/main.py that submit   *)
(* a job and report its status.                                            *)
(***************************************************************************)
TaskNames ==
    {"process_sprite", "generate_image", "generate_and_process",
     "generate_with_reference", "generate_with_reference_and_process"}

\* the tasks whose except clause calls self.retry
PipelineTasks ==
    {"process_sprite", "generate_and_process", "generate_with_reference_and_process"}

\* the tasks whose except clause returns a dict
GenerationOnly == {"generate_image", "generate_with_reference"}

\* the tasks that are sent the path of a reference image
WithReference == {"generate_with_reference", "generate_with_reference_and_process"}

\* what a step of a run can raise
ProcessErrors == {"BackgroundRemoval", "Engine"}

\* self.retry(exc=e, countdown=10, max_retries=1)
max_retries == 1
retry_countdown == 10

\* (mutant) every update reports progress 10
update_state_SameProgress(r, state, progress, step) ==
    [r EXCEPT !.status = state,
              !.result = Meta(10, step),
              !.reported = Append(@, <<r.retries, state, 10>>)]

\* self.update_state(state=..., meta={"progress": ..., "step": ...})
update_state(r, state, progress, step) ==
    [r EXCEPT !.status = state,
              !.result = Meta(progress, step),
              !.reported = Append(@, <<r.retries, state, progress>>)]

\* os.makedirs(task_output_dir, exist_ok=True)
makedirs(r) == [r EXCEPT !.task_output_dir = TRUE]

\* (mutant) the archive written inside the directory that rmtree removes
rmtree_WithArchive(r) == [r EXCEPT !.task_output_dir = FALSE, !.archive = FALSE]

\* if os.path.exists(task_output_dir): shutil.rmtree(task_output_dir)
rmtree(r) == [r EXCEPT !.task_output_dir = FALSE]

\* shutil.make_archive(zip_base_name, 'zip', task_output_dir)
make_archive(r) == [r EXCEPT !.archive = TRUE]

\* if os.path.exists(reference_image_path): os.remove(reference_image_path)
remove_reference(r) == [r EXCEPT !.reference_image = FALSE]

\* (mutant) no retry: the exception is raised again at once
retry_Never(r, e) ==
    [r EXCEPT !.status = "FAILURE", !.result = Raised(e), !.at = "done"]

\* Task.retry of Celery: with the retries used up it raises exc again and
\* the task fails; otherwise it sends the task again with the countdown and
\* raises Retry
retry(r, e) ==
    IF r.retries + 1 > max_retries
    THEN [r EXCEPT !.status = "FAILURE", !.result = Raised(e), !.at = "done"]
    ELSE [r EXCEPT !.status = "RETRY",
                   !.result = Raised(e),
                   !.retries = @ + 1,
                   !.countdown = retry_countdown,
                   !.at = "queued"]

\* the finally clause of the task: the pipeline tasks remove the directory,
\* the tasks with a reference image remove that image, generate_image_task
\* has no finally clause
finally_of(r) ==
    LET cleaned == IF r.task_name \in PipelineTasks THEN rmtree(r) ELSE r
    IN IF r.task_name \in WithReference THEN remove_reference(cleaned) ELSE cleaned

\* an exception raised before the try statement: the task fails as it is
raise_outside_try(r, e) ==
    [r EXCEPT !.status = "FAILURE", !.result = Raised(e), !.at = "done"]

\* an exception raised inside the try statement
raise_in_try(r, e) ==
    IF r.task_name \in PipelineTasks
    THEN finally_of(retry(r, e))
    ELSE finally_of([r EXCEPT !.status = "SUCCESS",
                              !.result = ReturnValue("failure", e),
                              !.at = "done"])

\* return {"status": "success", ...}: Celery stores the dict under SUCCESS
return_success(r) ==
    finally_of([r EXCEPT !.status = "SUCCESS",
                         !.result = ReturnValue("success", ""),
                         !.at = "done"])

\* from the lazy loading before the try statement to the first call that
\* can raise inside it
enter_try(r) ==
    IF r.task_name = "process_sprite"
    THEN [makedirs(r) EXCEPT !.at = "process"]
    ELSE IF r.task_name \in PipelineTasks
         THEN [update_state(makedirs(r), "GENERATING", 10, "generating") EXCEPT !.at = "generate"]
         ELSE [update_state(r, "GENERATING", 10, "") EXCEPT !.at = "generate"]

\* (mutant) the test of the global left out
is_None_Always(instance) == TRUE

\* if processor is None: / if generator is None:
is_None(instance) == instance = 0

\* get_task_status has read the status for its body and has not returned
InHandler == response.task_id # 0 /\ response.code = 0

\* the worker process runs no task
WorkerIdle == \A k \in Jobs : job[k].at \in {"none", "queued", "done"}

\* main.py: create_process_task, create_generate_task and
\* create_generate_with_reference_task send the task and answer "queued"
Submit(j) ==
    /\ pc = "worker"
    /\ job[j].at = "none"
    /\ \A k \in 1..(j - 1) : job[k].at # "none"
    /\ ~InHandler
    /\ \E name \in TaskNames :
          job' = [job EXCEPT ![j] = [@ EXCEPT !.task_name = name,
                                             !.at = "queued",
                                             !.reference_image = (name \in WithReference),
                                             !.upload = (name = "process_sprite")]]
    /\ response' = [NoResponse EXCEPT !.task_id = j, !.code = 200, !.status = "queued"]
    /\ UNCHANGED <<pc, processor, generator>>
    /\ UNCHANGED <<detectVars, mergeVars, resizeVars, gridVars, clusterVars, batchVars, apiVars>>

\* the worker takes the job from the queue and runs the task up to its
\* first "is None" test
Begin(j) ==
    /\ pc = "worker"
    /\ job[j].at = "queued"
    /\ WorkerIdle
    /\ job' = [job EXCEPT ![j] =
                  IF @.task_name = "process_sprite"
                  THEN IF is_None(processor)
                       THEN [@ EXCEPT !.at = "load_processor"]
                       ELSE enter_try(@)
                  ELSE IF is_None(generator)
                       THEN [@ EXCEPT !.at = "load_generator"]
                       ELSE enter_try(@)]
    /\ UNCHANGED <<pc, processor, generator, response>>
    /\ UNCHANGED <<detectVars, mergeVars, resizeVars, gridVars, clusterVars, batchVars, apiVars>>

\* generator = NanoBananaGenerator(), which raises ValueError without an
\* API key; the instances are numbered in the order they are made
LoadGenerator(j) ==
    /\ pc = "worker"
    /\ job[j].at = "load_generator"
    /\ \/ /\ generator' = generator + 1
          /\ job' = [job EXCEPT ![j] = enter_try(@)]
       \/ /\ job' = [job EXCEPT ![j] = raise_outside_try(@, "GeneratorInit")]
          /\ UNCHANGED generator
    /\ UNCHANGED <<pc, processor, response>>
    /\ UNCHANGED <<detectVars, mergeVars, resizeVars, gridVars, clusterVars, batchVars, apiVars>>

\* processor = IntegratedSpriteProcessor(), which raises when the model
\* cannot be loaded: before the try statement in process_sprite, inside it
\* in the other tasks
LoadProcessor(j) ==
    /\ pc = "worker"
    /\ job[j].at = "load_processor"
    /\ \/ /\ processor' = processor + 1
          /\ job' = [job EXCEPT ![j] =
                        IF @.task_name = "process_sprite"
                        THEN enter_try(@)
                        ELSE [@ EXCEPT !.at = "process"]]
       \/ /\ job' = [job EXCEPT ![j] =
                        IF @.task_name = "process_sprite"
                        THEN raise_outside_try(@, "ProcessorInit")
                        ELSE raise_in_try(@, "ProcessorInit")]
          /\ UNCHANGED processor
    /\ UNCHANGED <<pc, generator, response>>
    /\ UNCHANGED <<detectVars, mergeVars, resizeVars, gridVars, clusterVars, batchVars, apiVars>>

\* generator.generate, or Image.open and generator.edit, up to the next
\* call that can raise
Generate(j) ==
    /\ pc = "worker"
    /\ job[j].at = "generate"
    /\ \/ /\ job[j].task_name \in WithReference => job[j].reference_image
          /\ job' = [job EXCEPT ![j] =
                        IF @.task_name \in PipelineTasks
                        THEN [update_state(@, "PROCESSING", 50, "processing") EXCEPT
                                 !.at = IF is_None(processor) THEN "load_processor" ELSE "process"]
                        ELSE return_success(update_state(makedirs(@), "GENERATED", 100, ""))]
       \/ /\ job[j].task_name \in WithReference => job[j].reference_image
          /\ job' = [job EXCEPT ![j] = raise_in_try(@, "Generation")]
       \* the image is generated and saving generated.png raises, in the
       \* generation-only tasks after the directory was made
       \/ /\ job[j].task_name \in WithReference => job[j].reference_image
          /\ job' = [job EXCEPT ![j] =
                        IF @.task_name \in PipelineTasks
                        THEN raise_in_try(@, "Save")
                        ELSE raise_in_try(makedirs(@), "Save")]
       \/ /\ job[j].task_name \in WithReference
          /\ ~job[j].reference_image
          /\ job' = [job EXCEPT ![j] = raise_in_try(@, "FileNotFound")]
    /\ UNCHANGED <<pc, processor, generator, response>>
    /\ UNCHANGED <<detectVars, mergeVars, resizeVars, gridVars, clusterVars, batchVars, apiVars>>

\* processor.process: background removal, then the geometric engine
Process(j) ==
    /\ pc = "worker"
    /\ job[j].at = "process"
    /\ \/ job' = [job EXCEPT ![j] =
                     IF @.task_name = "process_sprite"
                     THEN [@ EXCEPT !.at = "package"]
                     ELSE [update_state(@, "PACKAGING", 90, "packaging") EXCEPT !.at = "package"]]
       \/ \E e \in ProcessErrors : job' = [job EXCEPT ![j] = raise_in_try(@, e)]
    /\ UNCHANGED <<pc, processor, generator, response>>
    /\ UNCHANGED <<detectVars, mergeVars, resizeVars, gridVars, clusterVars, batchVars, apiVars>>

\* shutil.make_archive and the return
Package(j) ==
    /\ pc = "worker"
    /\ job[j].at = "package"
    /\ \/ job' = [job EXCEPT ![j] = return_success(make_archive(@))]
       \/ job' = [job EXCEPT ![j] = raise_in_try(@, "Archive")]
    /\ UNCHANGED <<pc, processor, generator, response>>
    /\ UNCHANGED <<detectVars, mergeVars, resizeVars, gridVars, clusterVars, batchVars, apiVars>>

\* main.py: get_task_status up to line 285: the body is started with the
\* status read from the result backend
get_task_status(j) ==
    /\ pc = "worker"
    /\ job[j].at # "none"
    /\ ~InHandler
    /\ response' = [NoResponse EXCEPT !.task_id = j, !.status = job[j].status]
    /\ UNCHANGED <<pc, job, processor, generator>>
    /\ UNCHANGED <<detectVars, mergeVars, resizeVars, gridVars, clusterVars, batchVars, apiVars>>

\* main.py: get_task_status from line 287: the status is read again, as
\* AsyncResult does until the task is ready, and the body is completed
get_task_status_return(j) ==
    /\ pc = "worker"
    /\ InHandler
    /\ response.task_id = j
    /\ response' =
          [response EXCEPT
              !.code = 200,
              !.download_url = (job[j].status = "SUCCESS"),
              !.result = IF job[j].status = "SUCCESS" THEN job[j].result ELSE NoResult,
              !.error = IF job[j].status = "FAILURE" THEN job[j].result.error ELSE ""]
    /\ UNCHANGED <<pc, job, processor, generator>>
    /\ UNCHANGED <<detectVars, mergeVars, resizeVars, gridVars, clusterVars, batchVars, apiVars>>

\* task_result.result.get("zip_path"): the pipeline tasks return a dict with
\* zip_path, the generation tasks one with image_path or with error
zip_path(r) ==
    /\ r.result.type = "return"
    /\ r.result.status = "success"
    /\ r.task_name \in PipelineTasks

\* (mutant) the status test of download_result left out
download_response_Unchecked(r, j) ==
    IF ~zip_path(r) \/ ~r.archive
    THEN [NoResponse EXCEPT !.task_id = j, !.code = 404]
    ELSE [NoResponse EXCEPT !.task_id = j, !.code = 200, !.file = TRUE]

\* the HTTPException or the FileResponse of download_result
download_response(r, j) ==
    IF r.status # "SUCCESS"
    THEN [NoResponse EXCEPT !.task_id = j, !.code = 400]
    ELSE IF ~zip_path(r) \/ ~r.archive
         THEN [NoResponse EXCEPT !.task_id = j, !.code = 404]
         ELSE [NoResponse EXCEPT !.task_id = j, !.code = 200, !.file = TRUE]

\* main.py: download_result, for any task id
download_result(j) ==
    /\ pc = "worker"
    /\ ~InHandler
    /\ response' = download_response(job[j], j)
    /\ UNCHANGED <<pc, job, processor, generator>>
    /\ UNCHANGED <<detectVars, mergeVars, resizeVars, gridVars, clusterVars, batchVars, apiVars>>

\* the archive is removed from RESULT_DIR by something other than the
\* service, which download_result allows for with os.path.exists(zip_path)
ArchiveLost(j) ==
    /\ pc = "worker"
    /\ job[j].archive
    /\ job[j].at = "done"
    /\ job' = [job EXCEPT ![j].archive = FALSE]
    /\ UNCHANGED <<pc, processor, generator, response>>
    /\ UNCHANGED <<detectVars, mergeVars, resizeVars, gridVars, clusterVars, batchVars, apiVars>>

InitTasks ==
    /\ pc = "worker"
    /\ TasksIdle
    /\ ApiIdle
    /\ BatchIdle
    /\ ClusterIdle
    /\ DetectIdle
    /\ MergeIdle
    /\ ResizeIdle
    /\ GridIdle

NextTasks ==
    \E j \in Jobs :
        \/ Submit(j)
        \/ Begin(j)
        \/ LoadGenerator(j)
        \/ LoadProcessor(j)
        \/ Generate(j)
        \/ Process(j)
        \/ Package(j)
        \/ get_task_status(j)
        \/ get_task_status_return(j)
        \/ download_result(j)
        \/ ArchiveLost(j)

SpecTasks == InitTasks /\ [][NextTasks]_vars

(***************************************************************************)
(* main.py: the three submission endpoints, one submission at a time, and  *)
(* what the worker makes of a process_sprite task.                         *)
(***************************************************************************)
\* the bounds of the Field declarations, in the units of
\* DEFAULT_PROCESSING_PARAMS
ParamRanges ==
    [distance_threshold |-> <<10, 500>>, size_ratio_threshold |-> <<10, 100>>,
     alpha_threshold |-> <<1, 254>>, min_area_ratio |-> <<1, 1000>>,
     max_area_ratio |-> <<5, 90>>]

\* ge= and le= of every processing parameter of GenerateRequest hold
within_fields(params) ==
    \A name \in DOMAIN ParamRanges :
        /\ params[name] >= ParamRanges[name][1]
        /\ params[name] <= ParamRanges[name][2]

\* parameter sets: the defaults, and the defaults with one parameter at or
\* just beyond one of its bounds
ParamSamples ==
    {DEFAULT_PROCESSING_PARAMS}
      \cup {[DEFAULT_PROCESSING_PARAMS EXCEPT ![name] = ParamRanges[name][side] + delta] :
              name \in DOMAIN ParamRanges, side \in 1..2, delta \in {-1, 0, 1}}

\* prompts: strings of up to MaxPromptLen characters, each a blank or a letter
Prompts == SeqsUpTo({" ", "a"}, MaxPromptLen)

\* str.strip(): the blanks at both ends removed
RECURSIVE lstrip(_)
lstrip(str) == IF str # <<>> /\ Head(str) = " " THEN lstrip(Tail(str)) ELSE str

RECURSIVE rstrip(_)
rstrip(str) ==
    IF str # <<>> /\ str[Len(str)] = " " THEN rstrip(SubSeq(str, 1, Len(str) - 1)) ELSE str

strip(str) == rstrip(lstrip(str))

valid_models == {"nano-banana", "nano-banana-pro"}

\* the submissions: to /process a file, the parameters and, as
\* test_custom_sizes.py posts it, a map of custom sizes; to /generate a JSON
\* body; to /generate/with-reference a form with a reference image.
\* save_ok: writing the uploaded file to UPLOAD_DIR succeeds
Requests ==
    [endpoint : {"/process"}, prompt : {<<>>}, model : {"nano-banana"},
     auto_process : {TRUE}, params : ParamSamples, output_sizes_json : BOOLEAN,
     save_ok : BOOLEAN]
    \cup
    [endpoint : {"/generate"}, prompt : Prompts, model : valid_models \cup {"imagen"},
     auto_process : BOOLEAN, params : ParamSamples, output_sizes_json : {FALSE},
     save_ok : {TRUE}]
    \cup
    [endpoint : {"/generate/with-reference"}, prompt : Prompts, model : valid_models \cup {"imagen"},
     auto_process : BOOLEAN, params : ParamSamples, output_sizes_json : {FALSE},
     save_ok : BOOLEAN]

\* raise HTTPException(status_code=code)
HTTPException(code) == [NoResponse EXCEPT !.code = code]

\* return {"task_id": task.id, "status": "queued", ...}
queued == [NoResponse EXCEPT !.task_id = 1, !.code = 200, !.status = "queued"]

\* celery_client.send_task(name, args, kwargs): the reference image path is
\* among the args of the tasks with a reference
send_task(name, req) ==
    <<[name |-> name, processing_params |-> req.params,
       reference |-> (req.endpoint = "/generate/with-reference")]>>

\* (mutant) the prompt tested without strip()
is_rejected_NoStrip(req) == req.prompt = <<>> \/ req.model \notin valid_models

\* if not prompt.strip(): ... if model not in valid_models: ...
is_rejected(req) == strip(req.prompt) = <<>> \/ req.model \notin valid_models

InitApi ==
    /\ pc = "request"
    /\ TasksIdle
    /\ BatchIdle
    /\ ClusterIdle
    /\ DetectIdle
    /\ MergeIdle
    /\ ResizeIdle
    /\ GridIdle
    /\ request \in Requests
    /\ sent_tasks = <<>>
    /\ upload_dir = {}
    /\ produced_sets = {}

\* main.py: create_process_task
create_process_task ==
    /\ pc = "request"
    /\ request.endpoint = "/process"
    /\ IF ~request.save_ok
       THEN /\ response' = HTTPException(500)
            /\ UNCHANGED <<sent_tasks, upload_dir>>
       ELSE /\ upload_dir' = upload_dir \cup {"upload"}
            /\ sent_tasks' = sent_tasks \o send_task("tasks.process_sprite", request)
            /\ response' = queued
    /\ pc' = "replied"
    /\ UNCHANGED <<request, produced_sets, job, processor, generator>>
    /\ UNCHANGED <<detectVars, mergeVars, resizeVars, gridVars, clusterVars, batchVars>>

\* main.py: create_generate_task, after the validation of the body against
\* GenerateRequest, which answers 422
create_generate_task ==
    /\ pc = "request"
    /\ request.endpoint = "/generate"
    /\ IF ~within_fields(request.params)
       THEN /\ response' = HTTPException(422)
            /\ UNCHANGED sent_tasks
       ELSE IF is_rejected(request)
            THEN /\ response' = HTTPException(400)
                 /\ UNCHANGED sent_tasks
            ELSE /\ sent_tasks' = sent_tasks \o
                       send_task(IF request.auto_process
                                 THEN "tasks.generate_and_process"
                                 ELSE "tasks.generate_image", request)
                 /\ response' = queued
    /\ pc' = "replied"
    /\ UNCHANGED <<request, upload_dir, produced_sets, job, processor, generator>>
    /\ UNCHANGED <<detectVars, mergeVars, resizeVars, gridVars, clusterVars, batchVars>>

\* main.py: create_generate_with_reference_task. A required Form field sent
\* empty is answered 422 by the versions of FastAPI that take it as
\* missing, and reaches the handler in the others
create_generate_with_reference_task ==
    /\ pc = "request"
    /\ request.endpoint = "/generate/with-reference"
    /\ \E empty_is_missing \in BOOLEAN :
          IF empty_is_missing /\ request.prompt = <<>>
          THEN /\ response' = HTTPException(422)
               /\ UNCHANGED <<sent_tasks, upload_dir>>
          ELSE IF is_rejected(request)
               THEN /\ response' = HTTPException(400)
                    /\ UNCHANGED <<sent_tasks, upload_dir>>
               ELSE IF ~request.save_ok
                    THEN /\ response' = HTTPException(500)
                         /\ UNCHANGED <<sent_tasks, upload_dir>>
                    ELSE /\ upload_dir' = upload_dir \cup {"reference"}
                         /\ sent_tasks' = sent_tasks \o
                               send_task(IF request.auto_process
                                         THEN "tasks.generate_with_reference_and_process"
                                         ELSE "tasks.generate_with_reference", request)
                         /\ response' = queued
    /\ pc' = "replied"
    /\ UNCHANGED <<request, produced_sets, job, processor, generator>>
    /\ UNCHANGED <<detectVars, mergeVars, resizeVars, gridVars, clusterVars, batchVars>>

\* what process_sprite passes to processor.process as output_sizes: the
\* call names no output_sizes, so the default None
output_sizes_of(task) == [given |-> FALSE, presets |-> <<>>]

\* tasks.py: process_sprite run on the task sent, the image holding sprites:
\* resize_sprites makes one directory per size of size_configs
process_sprite ==
    /\ pc = "replied"
    /\ sent_tasks # <<>>
    /\ sent_tasks[1].name = "tasks.process_sprite"
    /\ produced_sets' =
          {preset.size_name :
              preset \in Range(effective_configs(output_sizes_of(sent_tasks[1])))}
    /\ pc' = "processed"
    /\ UNCHANGED <<request, sent_tasks, upload_dir, taskVars>>
    /\ UNCHANGED <<detectVars, mergeVars, resizeVars, gridVars, clusterVars, batchVars>>

NextApi ==
    \/ create_process_task
    \/ create_generate_task
    \/ create_generate_with_reference_task
    \/ process_sprite

SpecApi == InitApi /\ [][NextApi]_vars

(***************************************************************************)
(* Properties of merge_nearby_small_boxes, checked under SpecMerge.        *)
(***************************************************************************)
RECURSIVE SumMergedFrom(_)
SumMergedFrom(out) ==
    IF out = <<>> THEN 0 ELSE Head(out).merged_from + SumMergedFrom(Tail(out))

\* the places <<group, position>> of the output where region i appears
PlacesOf(i) ==
    {pl \in (1..Len(merged_boxes)) \X (1..Len(bboxes)) :
        /\ pl[2] <= Len(merged_boxes[pl[1]].contours)
        /\ merged_boxes[pl[1]].contours[pl[2]] = bboxes[i].contour}

\* the output group region i belongs to
GroupOf(i) ==
    CHOOSE g \in 1..Len(merged_boxes) :
        bboxes[i].contour \in Range(merged_boxes[g].contours)

\* the input regions of output group g
MembersOf(g) ==
    {i \in 1..Len(bboxes) : bboxes[i].contour \in Range(merged_boxes[g].contours)}

\* squared distance between the box centres (x + w // 2, y + h // 2)
CenterDist2(i, j) ==
    LET cx(b) == b.bbox[1] + (b.bbox[3] \div 2)
        cy(b) == b.bbox[2] + (b.bbox[4] \div 2)
    IN (cx(bboxes[i]) - cx(bboxes[j])) * (cx(bboxes[i]) - cx(bboxes[j]))
       + (cy(bboxes[i]) - cy(bboxes[j])) * (cy(bboxes[i]) - cy(bboxes[j]))

\* box-centre distance < distance_threshold
Within(i, j) ==
    distance_threshold > 0 /\ CenterDist2(i, j) < distance_threshold * distance_threshold

\* pixelArea at or above the cutoff median_area * size_ratio_threshold
AboveCutoff(i) == bboxes[i].area * 10 >= median_area * size_ratio_threshold

\* C1: every input region is in exactly one output group, the merged_from
\* values sum to the number of input regions, and the empty input gives the
\* empty output.
C1_EveryRegionInExactlyOneGroup ==
    pc = "merged" =>
        /\ \A i \in 1..Len(bboxes) : Cardinality(PlacesOf(i)) = 1
        /\ SumMergedFrom(merged_boxes) = Len(bboxes)
        /\ (bboxes = <<>> => merged_boxes = <<>>)

C1_Witness ==
    /\ pc = "merged"
    /\ Len(bboxes) = 3
    /\ Len(merged_boxes) = 2

\* C2: the merged box of every output group is the minimal rectangle
\* enclosing its member boxes, and merged_from is the number of members.
C2_MergedBoxIsEnclosingRectangle ==
    pc = "merged" =>
        \A g \in 1..Len(merged_boxes) :
            LET m == merged_boxes[g].bbox
                mem == MembersOf(g)
            IN /\ mem # {}
               /\ m[1] = Min({bboxes[i].bbox[1] : i \in mem})
               /\ m[2] = Min({bboxes[i].bbox[2] : i \in mem})
               /\ m[1] + m[3] = Max({bboxes[i].bbox[1] + bboxes[i].bbox[3] : i \in mem})
               /\ m[2] + m[4] = Max({bboxes[i].bbox[2] + bboxes[i].bbox[4] : i \in mem})
               /\ \A i \in mem :
                     /\ m[1] <= bboxes[i].bbox[1]
                     /\ m[2] <= bboxes[i].bbox[2]
                     /\ bboxes[i].bbox[1] + bboxes[i].bbox[3] <= m[1] + m[3]
                     /\ bboxes[i].bbox[2] + bboxes[i].bbox[4] <= m[2] + m[4]
               /\ merged_boxes[g].merged_from = Cardinality(mem)

C2_Witness ==
    /\ pc = "merged"
    /\ \E g \in 1..Len(merged_boxes) :
          /\ merged_boxes[g].merged_from = 2
          /\ \A i \in MembersOf(g) : bboxes[i].bbox # merged_boxes[g].bbox

\* the case of C3: S small, L1 the one large region within the threshold of
\* S, L2 another large region at or beyond the threshold from S
C3_Case(S, L1, L2) ==
    /\ L1 # L2
    /\ ~AboveCutoff(S) /\ AboveCutoff(L1) /\ AboveCutoff(L2)
    /\ Within(S, L1)
    /\ \A L \in 1..Len(bboxes) : (AboveCutoff(L) /\ Within(S, L)) => L = L1
    /\ ~Within(S, L2)

\* C3 as stated: S ends in the group of L1 and L2 is not in that group.
C3_SecondLargeNeverAbsorbs ==
    pc = "merged" =>
        \A S, L1, L2 \in 1..Len(bboxes) :
            C3_Case(S, L1, L2) =>
                /\ GroupOf(S) = GroupOf(L1)
                /\ GroupOf(L2) # GroupOf(S)

\* C3 (amended): S ends in the group of L1, and L2 is outside that group
\* whenever L2 is at or beyond the threshold from every other input region.
C3_SmallJoinsItsLargeNeighbour ==
    pc = "merged" =>
        \A S, L1, L2 \in 1..Len(bboxes) :
            C3_Case(S, L1, L2) =>
                /\ GroupOf(S) = GroupOf(L1)
                /\ (\A j \in 1..Len(bboxes) : j # L2 => ~Within(L2, j))
                      => GroupOf(L2) # GroupOf(S)

C3_Witness ==
    /\ pc = "merged"
    /\ \E S, L1, L2 \in 1..Len(bboxes) :
          /\ C3_Case(S, L1, L2)
          /\ \A j \in 1..Len(bboxes) : j # L2 => ~Within(L2, j)
          /\ GroupOf(S) = GroupOf(L1)
          /\ GroupOf(L2) # GroupOf(S)

\* the output as a set of groups, the order of the groups and of the members
\* within a group left out
GroupSet(out) ==
    {[members |-> Range(out[g].contours),
      bbox |-> out[g].bbox,
      merged_from |-> out[g].merged_from] : g \in 1..Len(out)}

Permuted(bs, p) == [i \in 1..Len(bs) |-> bs[p[i]]]

\* C5: the call on any permutation of the input list gives the same set of
\* groups (members, merged box, merged_from).
C5_OrderInsensitive ==
    pc = "merged" =>
        \A p \in Permutations(1..Len(bboxes)) :
            GroupSet(merge_nearby_small_boxes(Permuted(bboxes, p), distance_threshold,
                                              size_ratio_threshold))
                = GroupSet(merged_boxes)

C5_Witness ==
    /\ pc = "merged"
    /\ Len(bboxes) = 3
    /\ Len(merged_boxes) = 1
    /\ Len(small_boxes) = 1
    /\ \E p \in Permutations(1..3) :
          merge_nearby_small_boxes(Permuted(bboxes, p), distance_threshold,
                                   size_ratio_threshold)[1].contours
              # merged_boxes[1].contours

CountBelow(m) == Cardinality({i \in 1..Len(bboxes) : bboxes[i].area < m})
CountAtMost(m) == Cardinality({i \in 1..Len(bboxes) : bboxes[i].area <= m})

\* the large/small split by the cutoff median_area * size_ratio_threshold
SplitByCutoff ==
    /\ Range(large_boxes) = {i \in 1..Len(bboxes) : AboveCutoff(i)}
    /\ Range(small_boxes) = {i \in 1..Len(bboxes) : ~AboveCutoff(i)}

\* C6 as stated: for an even count the median is the lower-middle element of
\* the ascending pixelArea list.
C6_MedianIsLowerMiddle ==
    (pc = "merged" /\ Len(bboxes) > 0 /\ Len(bboxes) % 2 = 0) =>
        /\ CountBelow(median_area) < Len(bboxes) \div 2
        /\ Len(bboxes) \div 2 <= CountAtMost(median_area)
        /\ SplitByCutoff

\* C6 (amended): for an even count the median is the upper-middle element
\* of the ascending pixelArea list (0-based index n // 2); regions at or
\* above median * size_ratio_threshold are large, the others small.
C6_MedianIsUpperMiddle ==
    (pc = "merged" /\ Len(bboxes) > 0 /\ Len(bboxes) % 2 = 0) =>
        /\ CountBelow(median_area) <= Len(bboxes) \div 2
        /\ Len(bboxes) \div 2 < CountAtMost(median_area)
        /\ SplitByCutoff

C6_Witness ==
    /\ pc = "merged"
    /\ Len(bboxes) = 2
    /\ bboxes[1].area < bboxes[2].area
    /\ median_area = bboxes[2].area
    /\ Len(small_boxes) = 1

(***************************************************************************)
(* Properties of the detection step and of detection followed by merging,  *)
(* checked under SpecDetect.                                               *)
(***************************************************************************)
\* default area and alpha thresholds: 0.0005, 0.25, 50
DefaultThresholds ==
    /\ min_area_ratio = <<1, 2000>>
    /\ max_area_ratio = <<1, 4>>
    /\ alpha_threshold = 50

\* the smallest rectangle <<x, y, w, h>> around two opaque squares
Spanning(sq1, sq2) ==
    LET x1 == Min({sq1[1], sq2[1]})
        y1 == Min({sq1[2], sq2[2]})
        x2 == Max({sq1[1] + sq1[3], sq2[1] + sq2[3]})
        y2 == Max({sq1[2] + sq1[4], sq2[2] + sq2[4]})
    IN <<x1, y1, x2 - x1, y2 - y1>>

MergedOf(cx2) ==
    pc = "merged" /\ DefaultThresholds /\ alpha_channel = TwoSquares(cx2)

\* C4 as stated: squares centred at (100,100) and (130,100) give 1 merged
\* region spanning both at distance_threshold 80 and 2 merged regions at
\* distance_threshold 10.
C4_TwoRegionsAtTen ==
    MergedOf(130) =>
        /\ distance_threshold = 80 =>
              /\ Len(merged_boxes) = 1
              /\ merged_boxes[1].bbox = Spanning(Square(100, 100, 40), Square(130, 100, 40))
        /\ distance_threshold = 10 => Len(merged_boxes) = 2

\* C4 (amended): the 40x40 squares centred at (100,100) and (130,100) overlap
\* and are detected as one component, so both distance_threshold 80 and 10
\* give exactly 1 merged region, spanning both squares, built from 1 detected
\* region. Squares centred at (100,100) and (150,100) are detected apart and
\* give 1 merged region spanning both at 80 and 2 merged regions at 10.
C4_OverlappingSquaresAreOneRegion ==
    /\ MergedOf(130) =>
          /\ Len(bboxes) = 1
          /\ Len(merged_boxes) = 1
          /\ merged_boxes[1].bbox = Spanning(Square(100, 100, 40), Square(130, 100, 40))
          /\ merged_boxes[1].merged_from = 1
    /\ MergedOf(150) =>
          /\ Len(bboxes) = 2
          /\ distance_threshold = 80 =>
                /\ Len(merged_boxes) = 1
                /\ merged_boxes[1].bbox = Spanning(Square(100, 100, 40), Square(150, 100, 40))
                /\ merged_boxes[1].merged_from = 2
          /\ distance_threshold = 10 =>
                /\ Len(merged_boxes) = 2
                /\ \A g \in 1..2 : merged_boxes[g].merged_from = 1

C4_Witness ==
    /\ MergedOf(130)
    /\ distance_threshold = 10
    /\ Len(merged_boxes) = 1
    /\ merged_boxes[1].bbox = <<80, 80, 70, 40>>

\* the regions returned for the component with label l
ReturnedFor(l) == {k \in 1..Len(bboxes) : bboxes[k].contour = l}

\* W*H*minAreaRatio < pixelArea < W*H*maxAreaRatio, both strict
AreaStrictlyInside(c) ==
    /\ alpha_channel.w * alpha_channel.h * min_area_ratio[1] < c.area * min_area_ratio[2]
    /\ c.area * max_area_ratio[2] < alpha_channel.w * alpha_channel.h * max_area_ratio[1]

\* 0.05 < boxWidth/boxHeight < 20.0, both strict
AspectStrictlyInside(c) ==
    /\ c.height < 20 * c.width
    /\ c.width < 20 * c.height

AreaOnBound(c) ==
    \/ alpha_channel.w * alpha_channel.h * min_area_ratio[1] = c.area * min_area_ratio[2]
    \/ c.area * max_area_ratio[2] = alpha_channel.w * alpha_channel.h * max_area_ratio[1]

AspectOnBound(c) == c.height = 20 * c.width \/ c.width = 20 * c.height

\* C7: a foreground component is returned, once, iff its pixelArea is
\* strictly inside the area bounds and its boxWidth/boxHeight strictly inside
\* (0.05, 20.0); a component on a bound is dropped, the background (label 0)
\* is never returned, and a raster with no pixel above alpha_threshold gives
\* no region.
C7_RegionReturnedIffStrictlyInsideBounds ==
    pc # "start" =>
        /\ \A i \in 2..Len(stats) :
              /\ Cardinality(ReturnedFor(stats[i].label))
                    = IF AreaStrictlyInside(stats[i]) /\ AspectStrictlyInside(stats[i])
                      THEN 1 ELSE 0
              /\ (AreaOnBound(stats[i]) \/ AspectOnBound(stats[i]))
                    => ReturnedFor(stats[i].label) = {}
              /\ \A k \in ReturnedFor(stats[i].label) :
                    /\ bboxes[k].bbox = <<stats[i].left, stats[i].top,
                                          stats[i].width, stats[i].height>>
                    /\ bboxes[k].area = stats[i].area
        /\ ReturnedFor(stats[1].label) = {}
        /\ Len(bboxes) <= Len(stats) - 1
        /\ (\A q \in alpha_channel.ink : q[5] <= alpha_threshold) => bboxes = <<>>

C7_Witness ==
    /\ pc = "detected"
    /\ Len(stats) = 3
    /\ Len(bboxes) = 1
    /\ \E i \in 2..3 : AreaOnBound(stats[i]) /\ ReturnedFor(stats[i].label) = {}

(***************************************************************************)
(* Properties of _resize_and_center, checked under SpecResize.             *)
(***************************************************************************)
\* the resized sprite lies inside the canvas on both axes
InsideCanvas ==
    /\ offset[1] >= 0
    /\ offset[2] >= 0
    /\ offset[1] + new_size[1] <= size_config[2]
    /\ offset[2] + new_size[2] <= size_config[3]

\* C8 as stated: a sprite whose longer side exceeds maxSide is resized to
\* (floor(w*maxSide/max(w,h)), floor(h*maxSide/max(w,h))), its longer side
\* at most maxSide; any other sprite keeps its size; a returned raster has
\* exactly the canvas dimensions.
C8_ResizedSizeIsExactFloor ==
    pc # "sprite" =>
        LET w == image_size[1]
            h == image_size[2]
            longest == Max({w, h})
        IN /\ longest > size_config[1] =>
                 /\ new_size = <<(w * size_config[1]) \div longest,
                                 (h * size_config[1]) \div longest>>
                 /\ Max({new_size[1], new_size[2]}) <= size_config[1]
           /\ longest <= size_config[1] => new_size = image_size
           /\ pc = "centered" => canvas_size = <<size_config[2], size_config[3]>>

\* C9 as stated: for every sprite and every preset, built in or supplied by
\* the caller, the paste offsets are >= 0 and offset + resized size <= canvas
\* size on both axes.
C9_NeverCropsForAnyPreset ==
    pc = "centered" =>
        /\ offset = <<(size_config[2] - new_size[1]) \div 2,
                      (size_config[3] - new_size[2]) \div 2>>
        /\ InsideCanvas

\* C9 (amended): for every sprite, and for the built-in presets and every
\* caller-supplied preset whose maxSide is at most both canvas dimensions,
\* the paste offsets ((canvasW-w)//2, (canvasH-h)//2) are >= 0 and offset +
\* resized size <= canvas size on both axes.
C9_NeverCropsWhenMaxSideFitsCanvas ==
    (/\ pc = "centered"
     /\ \/ size_config \in SIZE_PRESETS
        \/ size_config[1] <= Min({size_config[2], size_config[3]})) =>
        /\ offset = <<(size_config[2] - new_size[1]) \div 2,
                      (size_config[3] - new_size[2]) \div 2>>
        /\ InsideCanvas

C9_Witness ==
    /\ pc = "centered"
    /\ size_config = <<100, 200, 100>>
    /\ image_size = <<340, 153>>
    /\ new_size[1] = 100
    /\ offset[1] = 50
    /\ offset[2] > 0

(***************************************************************************)
(* Properties of the grid line lists, checked under SpecGrid.              *)
(***************************************************************************)
\* split_by_grid got its line lists; after "cv2.error" they are the evenly
\* spaced ones
LinesProduced == pc \in {"hough", "color", "manual", "cv2.error"}
EvenlySpaced == pc \in {"manual", "cv2.error"}

StrictlyIncreasing(s) == \A i \in 1..(Len(s) - 1) : s[i] < s[i + 1]
NonDecreasing(s) == \A i \in 1..(Len(s) - 1) : s[i] <= s[i + 1]

\* the list begins with 0 and ends with extent
Spans(s, extent) == Len(s) >= 1 /\ s[1] = 0 /\ s[Len(s)] = extent

\* C10 as stated: whichever way the line lists were produced, each is
\* strictly increasing, begins with 0 and ends with H (horizontal) or W
\* (vertical), for any image size and any rows/cols.
C10_LinesStrictForAnyRowsCols ==
    LinesProduced =>
        /\ StrictlyIncreasing(h_lines) /\ Spans(h_lines, img_size[2])
        /\ StrictlyIncreasing(v_lines) /\ Spans(v_lines, img_size[1])

\* C10 (amended): lists produced by Hough line detection or by the
\* color-difference fallback are strictly increasing, begin with 0 and end
\* with H or W. Evenly spaced lists begin with 0, end with H or W and are
\* non-decreasing when rows >= 1 and cols >= 1, and are strictly increasing
\* when moreover rows <= H and cols <= W.
C10_LinesStrictWhenRowsColsFit ==
    /\ pc \in {"hough", "color"} =>
          /\ StrictlyIncreasing(h_lines) /\ Spans(h_lines, img_size[2])
          /\ StrictlyIncreasing(v_lines) /\ Spans(v_lines, img_size[1])
    /\ (EvenlySpaced /\ rows >= 1) =>
          /\ NonDecreasing(h_lines) /\ Spans(h_lines, img_size[2])
          /\ Len(h_lines) = rows + 1
          /\ rows <= img_size[2] => StrictlyIncreasing(h_lines)
    /\ (EvenlySpaced /\ cols >= 1) =>
          /\ NonDecreasing(v_lines) /\ Spans(v_lines, img_size[1])
          /\ Len(v_lines) = cols + 1
          /\ cols <= img_size[1] => StrictlyIncreasing(v_lines)

C10_Witness ==
    /\ pc = "manual"
    /\ img_size = <<64, 40>>
    /\ rows = 3
    /\ cols = 3
    /\ h_lines = <<0, 13, 26, 40>>
    /\ v_lines = <<0, 21, 42, 64>>

(***************************************************************************)
(* Properties of the fallbacks of split_by_grid, checked under SpecGrid.   *)
(***************************************************************************)
\* what each detection method returns on the image
HoughResult == detect_grid_lines(img_size, hough_lines)
ColorResult == detect_grid_by_color_diff(img_size, color_diffs)

\* a method found no usable internal line: one of its lists has two or
\* fewer entries
Unusable(lines) == Len(lines[1]) <= 2 \/ Len(lines[2]) <= 2

\* a method found no internal line at all: both lists are the borders only
BordersOnly(lines) == Len(lines[1]) <= 2 /\ Len(lines[2]) <= 2

\* rows and cols were both supplied
FallbackSupplied == rows # 0 /\ cols # 0

\* C11 as stated: in auto-detect mode, when neither Hough line detection
\* nor the color-difference method finds an internal line and rows/cols
\* were not supplied, split_by_grid ends in ValueError; it never goes on
\* with the 1x1 grid.
C11_NoLinesNoFallbackIsValueError ==
    (/\ pc # "grid"
     /\ auto_detect
     /\ BordersOnly(HoughResult)
     /\ BordersOnly(ColorResult)
     /\ ~FallbackSupplied) => pc = "ValueError"

\* C12 as stated: line detection is tried first, the color-difference
\* method only when a Hough list has two or fewer entries, and when that
\* method finds no usable internal line either and rows and cols were
\* supplied, the final lists are int(i*H/rows) and int(i*W/cols).
C12_FallbackOrderEndsInEvenLines ==
    /\ pc = "hough" => (~Unusable(HoughResult) /\ <<h_lines, v_lines>> = HoughResult)
    /\ pc = "color" => (Unusable(HoughResult) /\ <<h_lines, v_lines>> = ColorResult)
    /\ (/\ pc # "grid"
        /\ auto_detect
        /\ Unusable(HoughResult)
        /\ Unusable(ColorResult)
        /\ FallbackSupplied) =>
           /\ h_lines = EvenLines(rows, img_size[2])
           /\ v_lines = EvenLines(cols, img_size[1])

(***************************************************************************)
(* Properties of the cell loop of split_by_grid, checked under SpecGrid.   *)
(***************************************************************************)
\* the cells <<row, col>> of the grid in row-major order, counted from 1
CellsOf(hl, vl) ==
    LET num_rows == Len(hl) - 1
        num_cols == Len(vl) - 1
    IN [k \in 1..(IF num_rows > 0 /\ num_cols > 0 THEN num_rows * num_cols ELSE 0) |->
           <<((k - 1) \div num_cols) + 1, ((k - 1) % num_cols) + 1>>]

CellWidth(vl, cell) == vl[cell[2] + 1] - vl[cell[2]]
CellHeight(hl, cell) == hl[cell[1] + 1] - hl[cell[1]]

\* the cell inset by pad on all four sides, <<x1, y1, x2, y2>>
Inset(hl, vl, cell, pad) ==
    <<vl[cell[2]] + pad, hl[cell[1]] + pad, vl[cell[2] + 1] - pad, hl[cell[1] + 1] - pad>>

\* split_by_grid returned its sprite paths
Returned == pc \in {"hough", "color", "manual"}

\* the sprites saved are the cells of kept, in that order, each cropped to
\* the cell inset by padding with positive width and height, in files
\* numbered 0, 1, 2, ...
EmittedAre(kept) ==
    /\ Len(sprite_crops) = Len(kept)
    /\ Len(sprite_paths) = Len(kept)
    /\ \A i \in 1..Len(kept) :
          /\ sprite_crops[i] = Inset(h_lines, v_lines, kept[i], padding)
          /\ sprite_crops[i][3] > sprite_crops[i][1]
          /\ sprite_crops[i][4] > sprite_crops[i][2]
          /\ sprite_paths[i] = i - 1

\* the cell collapses as the claim has it: padding >= cell size on an axis
CollapsesAtPadding(cell) ==
    padding >= CellWidth(v_lines, cell) \/ padding >= CellHeight(h_lines, cell)

\* the cell collapses as the code has it: 2 * padding >= cell size on an axis
CollapsesAtTwicePadding(cell) ==
    2 * padding >= CellWidth(v_lines, cell) \/ 2 * padding >= CellHeight(h_lines, cell)

PipelineJobs == {j \in Jobs : job[j].task_name \in PipelineTasks}
GenerationJobs == {j \in Jobs : job[j].task_name \in GenerationOnly}

\* the latest run of the job ended with this exception
RaisedIn(j, errors) == job[j].result.error \in errors

\* the exception was raised before the try statement of the task
RaisedBeforeTry(j) ==
    \/ RaisedIn(j, {"GeneratorInit"})
    \/ job[j].task_name = "process_sprite" /\ RaisedIn(j, {"ProcessorInit"})

\* what holds of the retries of job j whatever raised
RetryBudget(j) ==
    /\ job[j].retries <= 1
    /\ job[j].status = "RETRY" =>
          (job[j].retries = 1 /\ job[j].countdown = 10 /\ job[j].result.type = "exception")
    /\ job[j].status = "FAILURE" =>
          (job[j].at = "done" /\ job[j].result.type = "exception" /\ job[j].result.error # "")
    /\ job[j].status = "SUCCESS" =>
          (job[j].at = "done" /\ job[j].result = ReturnValue("success", ""))
    /\ job[j].at = "done" => job[j].status \in {"SUCCESS", "FAILURE"}

\* C14 as stated: in every pipeline task an exception in the first run
\* triggers one retry with countdown 10, so a job fails only in its retried
\* run; the body runs at most twice; a retried run that raises ends the job
\* in FAILURE carrying the error, one that succeeds ends it in SUCCESS.
C14_EveryExceptionIsRetriedOnce ==
    \A j \in PipelineJobs :
        /\ RetryBudget(j)
        /\ job[j].status = "FAILURE" => job[j].retries = 1

\* C14 (amended): in every pipeline task an exception raised inside the try
\* statement of the first run triggers one retry with countdown 10, so a
\* job fails either in its retried run or on an exception raised before the
\* try statement (loading the generator, or the processor in
\* process_sprite), which is not retried; the body runs at most twice; a
\* retried run that raises ends the job in FAILURE carrying the error, one
\* that succeeds ends it in SUCCESS.
C14_ExceptionInTryIsRetriedOnce ==
    \A j \in PipelineJobs :
        /\ RetryBudget(j)
        /\ job[j].status = "FAILURE" => (job[j].retries = 1 \/ RaisedBeforeTry(j))

\* the engine raised in both runs of a generate_and_process job
C14_Witness ==
    /\ job[1].task_name = "generate_and_process"
    /\ job[1].status = "FAILURE"
    /\ job[1].retries = 1
    /\ job[1].result = Raised("Engine")
    /\ Len(job[1].reported) = 4

\* C15 as stated: in every pipeline task, when the generation step or the
\* background removal raises, the job goes to FAILURE at once and no second
\* run is made.
C15_CollaboratorErrorsAreNotRetried ==
    \A j \in PipelineJobs :
        (job[j].result.type = "exception" /\ RaisedIn(j, {"Generation", "BackgroundRemoval"})) =>
            (job[j].status = "FAILURE" /\ job[j].retries = 0)

\* C16 as stated: a generation-only job whose generation raised is over
\* without a retry and is a failed job: its status is FAILURE with the
\* error, and a status response for it never says SUCCESS nor carries a
\* download URL.
C16_GenerationFailureIsReportedAsFailure ==
    \A j \in GenerationJobs :
        RaisedIn(j, {"Generation"}) =>
            /\ job[j].at = "done"
            /\ job[j].retries = 0
            /\ job[j].status = "FAILURE"
            /\ response.task_id = j =>
                  (response.status # "SUCCESS" /\ ~response.download_url)

\* the run of the job has exited: the job is over or waits for its retry
RunExited(j) ==
    \/ job[j].at = "done"
    \/ job[j].at = "queued" /\ job[j].retries > 0

\* C17 as stated: for every task type, once a run has exited, by a return,
\* an exception leading to a retry or a terminal failure, TEMP_DIR/<task_id>
\* does not exist.
C17_TempDirGoneAfterEveryTask ==
    \A j \in Jobs : RunExited(j) => ~job[j].task_output_dir

\* the part of it that the finally clauses give: the same of the three
\* pipeline tasks
TempDirGoneAfterPipelineTask ==
    \A j \in PipelineJobs : RunExited(j) => ~job[j].task_output_dir

\* the progress values of the sequence never get smaller
NeverSmaller(reports) ==
    \A i, k \in 1..Len(reports) : i < k => reports[i][3] <= reports[k][3]

\* within each run the progress values grow
GrowsWithinRun(reports) ==
    \A i, k \in 1..Len(reports) :
        (i < k /\ reports[i][1] = reports[k][1]) => reports[i][3] < reports[k][3]

\* C18 as stated: over the whole life of a job, a retried run included, a
\* later reported progress value is never smaller than an earlier one.
C18_ProgressNeverDecreases ==
    \A j \in Jobs : NeverSmaller(job[j].reported)

\* C18 (amended): within each run of a job a later reported progress value
\* is larger than an earlier one (10, then 50, then 90 in a pipeline task;
\* 10, then 100 in a generation-only task); a retried run reports from 10
\* again.
C18_ProgressGrowsWithinEachRun ==
    \A j \in Jobs :
        /\ GrowsWithinRun(job[j].reported)
        /\ \A i \in 1..Len(job[j].reported) :
              /\ job[j].reported[i][3] \in
                    (IF j \in PipelineJobs THEN {10, 50, 90} ELSE {10, 100})
              /\ (i = 1 \/ job[j].reported[i - 1][1] # job[j].reported[i][1]) =>
                    job[j].reported[i][3] = 10

\* a job whose first run reported 10, 50, 90 and raised in the archive step,
\* and whose retried run reported 10, 50, 90 and succeeded
C18_Witness ==
    /\ job[1].status = "SUCCESS"
    /\ job[1].retries = 1
    /\ [i \in 1..Len(job[1].reported) |-> job[1].reported[i][3]] = <<10, 50, 90, 10, 50, 90>>

\* position i of the reports is the state, made in the given run
ReportedAt(j, i, run, state) ==
    job[j].reported[i][1] = run /\ job[j].reported[i][2] = state

\* C19 as stated: a job is in SUCCESS only after its run reported
\* processing and then packaging; generating, when reported, comes before
\* processing; generating is never reported for a process_sprite job.
C19_SuccessOnlyAfterProcessingAndPackaging ==
    \A j \in PipelineJobs :
        LET n == Len(job[j].reported)
        IN /\ job[j].status = "SUCCESS" =>
                 \E i, k \in 1..n :
                     /\ i < k
                     /\ ReportedAt(j, i, job[j].retries, "PROCESSING")
                     /\ ReportedAt(j, k, job[j].retries, "PACKAGING")
           /\ \A i, k \in 1..n :
                 (/\ job[j].reported[i][1] = job[j].reported[k][1]
                  /\ job[j].reported[i][2] = "GENERATING"
                  /\ job[j].reported[k][2] = "PROCESSING") => i < k
           /\ job[j].task_name = "process_sprite" =>
                 \A i \in 1..n : job[j].reported[i][2] # "GENERATING"

\* C20: in the worker process, over any sequence of jobs, the processor and
\* the generator are each instantiated at most once: a global that is set
\* is never written again, so every later job uses the same instance.
C20_ModelsLoadedAtMostOnce ==
    [][/\ processor # 0 => processor' = processor
       /\ generator # 0 => generator' = generator
       /\ processor' <= 1
       /\ generator' <= 1]_vars

\* two generate_and_process jobs have succeeded one after the other, both
\* with the first generator and the first processor
C20_Witness ==
    /\ \A j \in {1, 2} :
          /\ job[j].task_name = "generate_and_process"
          /\ job[j].status = "SUCCESS"
    /\ processor = 1
    /\ generator = 1

(***************************************************************************)
(* The resized size of a thin sprite, checked under SpecResize.            *)
(***************************************************************************)
\* C28 as stated: for a sprite of width >= 1 and height >= 1 and a preset
\* with maxSide >= 1 the resized width and height are both >= 1, and the
\* sprite gets its normalized output.
C28_ResizedSidesAtLeastOne ==
    (/\ pc \in {"centered", "failed"}
     /\ image_size[1] >= 1
     /\ image_size[2] >= 1
     /\ size_config[1] >= 1) =>
        /\ new_size[1] >= 1
        /\ new_size[2] >= 1
        /\ pc = "centered"

(***************************************************************************)
(* The partition of merge_nearby_small_boxes as the components of a        *)
(* graph, checked under SpecMerge.                                         *)
(***************************************************************************)
\* region i is large
IsLarge(i) == i \in Range(large_boxes)

\* {i, j} is an edge: one of the two is large and the centers are nearer
\* than distance_threshold
IsEdge(i, j) ==
    /\ i # j
    /\ IsLarge(i) \/ IsLarge(j)
    /\ CenterDist2(i, j) < distance_threshold * distance_threshold

\* the regions reached from those of S over edges, in at most k steps
RECURSIVE ReachedFrom(_, _)
ReachedFrom(S, k) ==
    IF k = 0 THEN S
    ELSE ReachedFrom(S \cup {j \in 1..Len(bboxes) : \E i \in S : IsEdge(i, j)}, k - 1)

\* the connected component of region i
ComponentOf(i) == ReachedFrom({i}, Len(bboxes))

\* C25: the groups of merge_nearby_small_boxes are the connected components
\* of the graph over the input regions whose edges are the pairs with a
\* large member and center distance strictly below distance_threshold; the
\* merged_from of a group is the size of its component, and a region
\* without an edge is a group of its own with its own box.
C25_GroupsAreComponents ==
    pc = "merged" =>
        /\ {MembersOf(g) : g \in 1..Len(merged_boxes)}
              = {ComponentOf(i) : i \in 1..Len(bboxes)}
        /\ \A g, h \in 1..Len(merged_boxes) :
              g # h => MembersOf(g) \cap MembersOf(h) = {}
        /\ \A g \in 1..Len(merged_boxes) :
              /\ merged_boxes[g].merged_from = Cardinality(MembersOf(g))
              /\ \A i \in 1..Len(bboxes) :
                    MembersOf(g) = {i} =>
                        merged_boxes[g].bbox = bboxes[i].bbox

\* two small regions nearer to each other than distance_threshold end in
\* different groups
C25_Witness ==
    /\ pc = "merged"
    /\ Len(bboxes) = 4
    /\ \E a, b \in Range(small_boxes) :
          /\ a # b
          /\ CenterDist2(a, b) > 0
          /\ CenterDist2(a, b) < distance_threshold * distance_threshold
          /\ \E g, h \in 1..Len(merged_boxes) :
                g # h /\ a \in MembersOf(g) /\ b \in MembersOf(h)

(***************************************************************************)
(* Properties of _cluster_lines, checked under SpecCluster.                *)
(***************************************************************************)
\* the positions given, without repetition
DistinctPositions == Range(line_positions)

\* the positions joined to p by a chain of given positions whose successive
\* gaps are at most line_threshold
RECURSIVE ChainedTo(_, _)
ChainedTo(S, k) ==
    IF k = 0 THEN S
    ELSE ChainedTo(S \cup {q \in DistinctPositions :
                              \E p \in S : /\ q - p <= line_threshold
                                           /\ p - q <= line_threshold}, k - 1)

RunOf(p) == ChainedTo({p}, Cardinality(DistinctPositions))

Runs == {RunOf(p) : p \in DistinctPositions}

MinOf(S) == CHOOSE m \in S : \A x \in S : m <= x
MaxOf(S) == CHOOSE m \in S : \A x \in S : x <= m

\* C27: the list returned by _cluster_lines is strictly increasing, has at
\* most as many entries as there are distinct positions, has one entry per
\* cluster lying between the least and the greatest position of that
\* cluster, has consecutive entries more than distance_threshold apart, and
\* is returned unchanged when clustered again; no positions give no entries.
C27_ClusterLinesShape ==
    pc = "clustered" =>
        /\ \A k \in 1..(Len(clusters) - 1) :
              /\ clusters[k] < clusters[k + 1]
              /\ clusters[k + 1] - clusters[k] > line_threshold
        /\ Len(clusters) <= Cardinality(DistinctPositions)
        /\ Len(clusters) = Cardinality(Runs)
        /\ \A k \in 1..Len(clusters) :
              \E run \in Runs : /\ MinOf(run) <= clusters[k]
                                /\ clusters[k] <= MaxOf(run)
        /\ cluster_lines(Range(clusters), line_threshold) = clusters
        /\ line_positions = <<>> => clusters = <<>>

\* three positions: a cluster of two whose mean is rounded down, and a
\* second cluster
C27_Witness ==
    /\ pc = "clustered"
    /\ Len(line_positions) = 3
    /\ Cardinality(DistinctPositions) = 3
    /\ line_threshold = 3
    /\ Len(clusters) = 2
    /\ \E run \in Runs : /\ Cardinality(run) = 2
                         /\ (MinOf(run) + MaxOf(run)) % 2 = 1
                         /\ clusters[1] = (MinOf(run) + MaxOf(run)) \div 2

(***************************************************************************)
(* Properties of resize_sprites, checked under SpecBatch.                  *)
(***************************************************************************)
\* the presets the call works through
BatchPresets == Range(effective_configs(size_configs))

\* normalising sprite i for preset fails
FailsFor(preset, i) ==
    \/ ~sprite_files[i].readable
    \/ <<preset.size_name, i>> \in save_faults
    \/ /\ pillow_rejects
       /\ \E side \in 1..2 :
             NewSize(sprite_files[i].size[1], sprite_files[i].size[2],
                     preset.config[1])[side] < 1

\* C24: a failure while normalising one sprite for one preset leaves that
\* output alone out: every other sprite of every preset is written under
\* the name of its source, and the call returns without raising.
C24_FailureExcludesOnlyThatOutput ==
    (pc = "resized" /\ sprite_files # <<>>) =>
        /\ batch_error = "none"
        /\ \A preset \in BatchPresets, i \in 1..Len(sprite_files) :
              <<preset.size_name, i>> \in written <=> ~FailsFor(preset, i)
        /\ output_dirs = {preset.size_name : preset \in BatchPresets}

\* the first sprite fails for the first preset alone, for a zero width or a
\* failed save, and the three other outputs are written
C24_Witness ==
    /\ pc = "resized"
    /\ Len(sprite_files) = 2
    /\ size_configs.given
    /\ Len(size_configs.presets) = 2
    /\ FailsFor(size_configs.presets[1], 1)
    /\ written = {<<size_configs.presets[1].size_name, 2>>,
                  <<size_configs.presets[2].size_name, 1>>,
                  <<size_configs.presets[2].size_name, 2>>}
    /\ batch_error = "none"

(***************************************************************************)
(* The files of a job, checked under SpecTasks.                            *)
(***************************************************************************)
\* C26 as stated: a generate_with_reference_and_process job keeps its
\* reference image until it ends: the image is there while the job waits
\* for its retry and while the retried run works.
C26_ReferenceKeptForRetry ==
    \A j \in Jobs :
        (/\ job[j].task_name = "generate_with_reference_and_process"
         /\ job[j].at \notin {"none", "done"}) => job[j].reference_image

\* the job a response is about
Asked == job[response.task_id]

\* what a response that carries the archive, a download_url or an error
\* says of its job, whatever happened since it was sent
AnswerFitsJob ==
    response.task_id # 0 =>
        /\ response.file => (Asked.status = "SUCCESS" /\ Asked.result.status = "success")
        /\ response.download_url => Asked.status = "SUCCESS"
        /\ response.error # "" => Asked.status = "FAILURE"

\* the answer of download_result to the request for job j
DownloadAnswer(j) ==
    /\ response'.code = 400 <=> job[j].status # "SUCCESS"
    /\ response'.code = 404 <=>
          /\ job[j].status = "SUCCESS"
          /\ \/ ~(job[j].task_name \in PipelineTasks /\ job[j].result.status = "success")
             \/ ~job[j].archive
    /\ response'.file <=>
          /\ job[j].status = "SUCCESS"
          /\ job[j].task_name \in PipelineTasks
          /\ job[j].result.status = "success"
          /\ job[j].archive
    /\ response'.file => response'.code = 200

\* the keys get_task_status adds to its body for job j
StatusAnswer(j) ==
    /\ response'.download_url <=> job[j].status = "SUCCESS"
    /\ response'.error # "" <=> job[j].status = "FAILURE"

\* C23: download_result answers 400 whenever the task is not in SUCCESS, 404
\* when the result has no zip_path or the file is gone, and sends the
\* archive only for a task in SUCCESS whose archive exists; get_task_status
\* gives download_url only for a task in SUCCESS and error only for one in
\* FAILURE.
C23_ArchiveOnlyAfterSuccess ==
    /\ []AnswerFitsJob
    /\ [][\A j \in Jobs :
             /\ download_result(j) => DownloadAnswer(j)
             /\ get_task_status_return(j) => StatusAnswer(j)]_vars

\* the archive of a job that succeeded was downloaded
C23_Witness ==
    /\ response.task_id # 0
    /\ response.file
    /\ Asked.task_name \in PipelineTasks
    /\ Asked.retries = 1

\* a step of the run of job j in the worker
TaskStep(j) ==
    \/ Begin(j)
    \/ LoadGenerator(j)
    \/ LoadProcessor(j)
    \/ Generate(j)
    \/ Process(j)
    \/ Package(j)

\* the run of job j returns success in this step: the archive was made
\* while the working directory was there, and the directory is gone after
ArchivedThenCleaned(j) ==
    (Package(j) /\ job'[j].status = "SUCCESS") =>
        /\ job[j].task_output_dir
        /\ ~job'[j].task_output_dir
        /\ job'[j].archive
        /\ job'[j].result.status = "success"

\* no archive and no upload of /process is removed in this step
KeepsArchivesAndUploads ==
    \A k \in Jobs :
        /\ job[k].archive => job'[k].archive
        /\ job[k].upload => job'[k].upload

\* no working directory but that of job j is removed in this step
KeepsOtherDirectories(j) ==
    \A k \in Jobs \ {j} : job[k].task_output_dir => job'[k].task_output_dir

\* no reference image is removed in this step
KeepsReferenceImages ==
    \A k \in Jobs : job[k].reference_image => job'[k].reference_image

\* no reference image is removed in this step but that of job j, a
\* generate_with_reference_and_process job
KeepsOtherReferenceImages(j) ==
    \A k \in Jobs :
        (job[k].reference_image /\ ~job'[k].reference_image) =>
            (k = j /\ job[j].task_name = "generate_with_reference_and_process")

\* C29 as stated: in every pipeline task the archive is made before the
\* working directory is removed and is there when the job returns success;
\* the task removes its own TEMP_DIR/<task_id> and nothing else; it never
\* removes a result archive or the file uploaded for process_sprite.
C29_CleanupRemovesOnlyWorkingDirectory ==
    [][\A j \in Jobs :
          (TaskStep(j) /\ job[j].task_name \in PipelineTasks) =>
              /\ ArchivedThenCleaned(j)
              /\ KeepsArchivesAndUploads
              /\ KeepsOtherDirectories(j)
              /\ KeepsReferenceImages]_vars

\* C29 (amended): as C29, but generate_with_reference_and_process_task
\* removes, besides its own TEMP_DIR/<task_id>, the reference image of its
\* job.
C29_CleanupRemovesOnlyFilesOfTheRun ==
    [][\A j \in Jobs :
          (TaskStep(j) /\ job[j].task_name \in PipelineTasks) =>
              /\ ArchivedThenCleaned(j)
              /\ KeepsArchivesAndUploads
              /\ KeepsOtherDirectories(j)
              /\ KeepsOtherReferenceImages(j)]_vars

\* a process_sprite job returned success: its directory is gone, its archive
\* and its upload are there, next to the archive of an earlier job
C29_Witness ==
    /\ job[2].task_name = "process_sprite"
    /\ job[2].status = "SUCCESS"
    /\ ~job[2].task_output_dir
    /\ job[2].archive
    /\ job[2].upload
    /\ job[1].status = "SUCCESS"
    /\ job[1].task_name = "generate_with_reference_and_process"
    /\ job[1].archive
    /\ ~job[1].reference_image

(***************************************************************************)
(* Properties of the submission endpoints, checked under SpecApi.          *)
(***************************************************************************)
\* the documented ranges: distance_threshold in [10, 500],
\* size_ratio_threshold in [0.1, 1.0], alpha_threshold in [1, 254],
\* min_area_ratio in [0.0001, 0.1], max_area_ratio in [0.05, 0.9]
Documented(params) ==
    /\ params.distance_threshold \in 10..500
    /\ params.size_ratio_threshold \in 10..100
    /\ params.alpha_threshold \in 1..254
    /\ params.min_area_ratio \in 1..1000
    /\ params.max_area_ratio \in 5..90

Handled == pc # "request"

\* C21 as stated: on every submission endpoint a request with a processing
\* parameter outside its documented range is rejected and no task is sent.
C21_NoTaskOutsideDocumentedRange ==
    (Handled /\ ~Documented(request.params)) =>
        /\ sent_tasks = <<>>
        /\ response.code # 200

\* C22 as stated: a job submitted to /process with a map of custom sizes
\* has one set of sprites per custom size and none for large, medium and
\* small; a job submitted without one has the three built-in sets.
C22_CustomSizesOverrideBuiltIn ==
    pc = "processed" =>
        produced_sets = IF request.output_sizes_json
                        THEN {"tiny_icon", "banner"}
                        ELSE {"large", "medium", "small"}

\* the submission is one to /generate or /generate/with-reference
ToGenerate == request.endpoint \in {"/generate", "/generate/with-reference"}

\* the prompt is empty or blank, or the model is not one of the two
BadPromptOrModel ==
    \/ \A i \in 1..Len(request.prompt) : request.prompt[i] = " "
    \/ request.model \notin {"nano-banana", "nano-banana-pro"}

\* nothing was sent and nothing was written
NoTrace == sent_tasks = <<>> /\ upload_dir = {}

\* an accepted submission sent one task and answers with its handle
OneTaskQueued ==
    response.code = 200 =>
        /\ Len(sent_tasks) = 1
        /\ response.status = "queued"
        /\ response.task_id = 1

\* the request validation of the framework answers before the handler runs
RejectedBeforeHandler ==
    \/ request.endpoint = "/generate" /\ ~Documented(request.params)
    \/ request.endpoint = "/generate/with-reference" /\ request.prompt = <<>>

\* C30 as stated: /generate and /generate/with-reference answer 400 to an
\* empty or blank prompt and to an unknown model, and then no task is sent
\* and no reference file is written; an accepted submission sends exactly
\* one task and answers with its handle and the status queued.
C30_BadPromptOrModelIs400 ==
    (Handled /\ ToGenerate) =>
        /\ BadPromptOrModel => (response.code = 400 /\ NoTrace)
        /\ OneTaskQueued

\* C30 (amended): as C30, but the answer is 422 instead of 400 when the
\* request validation of the framework rejects the request before the
\* handler runs.
C30_BadPromptOrModelLeavesNoTrace ==
    (Handled /\ ToGenerate) =>
        /\ BadPromptOrModel =>
              /\ response.code \in {400, 422}
              /\ response.code = 422 => RejectedBeforeHandler
              /\ NoTrace
        /\ OneTaskQueued

\* a blank prompt sent to /generate/with-reference with a reference image
\* that could be saved: 400, no task, no file
C30_Witness ==
    /\ Handled
    /\ request.endpoint = "/generate/with-reference"
    /\ request.prompt = <<" ", " ">>
    /\ request.model = "nano-banana-pro"
    /\ request.save_ok
    /\ response.code = 400
    /\ NoTrace

====
